---- MODULE Spec2Model ----
(***************************************************************************)
(* A model of the Taobao/Tmall product scraper of Pixelle-Video:           *)
(* services/ecommerce/taobao.py (TaobaoScraper), base.py (ScraperFactory)  *)
(* and models.py (ScrapeResult, ProductInfo).                              *)
(*                                                                         *)
(* Spec         one TaobaoScraper instance whose caller awaits each call:  *)
(*              scrape() calls one after another, and close().             *)
(* SpecFactory  ScraperFactory.register / ScraperFactory.create.           *)
(* SpecSeller   TaobaoScraper._extract_seller_id on bounded page markup.   *)
(* SpecImages   TaobaoScraper._extract_main_images on bounded pages.       *)
(***************************************************************************)
EXTENDS Integers, Sequences, FiniteSets, TLC

\* ------------------------------------------------------------------ bounds
\* scrape() calls begun on the instance in one behaviour
MaxScrapes == 2
\* close() calls begun on the instance in one behaviour
MaxCloses == 2
\* main images the extractor finds on one page
MaxImages == 2

\* The two call slots: at most two scrape() coroutines are in flight at once.
Calls == {"c1", "c2"}

\* Python's None for a handle; handles are the positive numbers.
NULL == 0
\* Optional[T]: None is the empty tuple, a value x is <<x>>.
None == <<>>
Some(x) == <<x>>

VARIABLES
    \* --- TaobaoScraper fields (taobao.py:67-68)
    context,        \* self._context: NULL or the handle of a browser context
    playwright,     \* self._playwright: NULL or the handle of an engine
    \* --- the browser side
    engines,        \* engine handles started and not stopped
    contexts,       \* context handles launched and not closed
    nextId,         \* the next fresh handle
    \* --- one scrape() call per slot
    callers,        \* the slots in use: the callers of the instance
    pc,             \* the await the call is suspended at
    args,           \* the call's arguments
    ctxSeen,        \* self._context as read when _ensure_browser returned
    page,           \* the call's page
    product,        \* the ProductInfo under construction (Optional)
    jsonFile,       \* what the call wrote to product_info.json (Optional)
    dl,             \* _download_images: [i, local_images, resp], resp the
                    \* outcome of each turn of its loop so far
    pending,        \* the exception travelling through the finally clause
    raised,         \* the steps of the call that raised
    result,         \* the ScrapeResult the call returned (Optional)
    outcome,        \* "none" | "returned" | "raised"
    \* --- the close() call
    closePc,        \* "idle" | "ctx_close" | "pw_stop"
    closeResult,    \* "none" | "returned" | "raised", of the latest close()
    released,       \* handles the latest close() released
    closeClean,     \* the latest close() began with both handles NULL
    priorClose,     \* closeResult as the latest close() found it
    \* --- history
    nscrapes,       \* scrape() calls begun
    ncloses,        \* close() calls begun
    launches,       \* contexts launched since close() last released one
    sessionCalls,   \* calls that got past _ensure_browser since then
    passOrder,      \* the call's rank among those (0: not past it)
    launched,       \* the call launched the context itself
    \* --- ScraperFactory (base.py:77) and its latest create()
    scrapers,       \* ScraperFactory._scrapers: platform key -> scraper class
    imported,       \* register() calls of taobao.py's import that have run
    createArg,      \* the argument of the latest create() (Optional)
    createResult,   \* "none" | "ValueError" | the class of the instance
    \* --- one _extract_seller_id call
    sellerPage,     \* the page: [usable, content]
    sellerOut,      \* what the call returned (Optional seller id)
    sellerDone,     \* the call has returned
    \* --- one _extract_main_images call
    imgPage,        \* the page: [usable, content, gallery, thumbs]
    imgApi,         \* api_images, the intercepted candidates
    imgOut,         \* what the call raised or returned, and its locals:
                    \* [raised, images, seller_id, main_images]
    imgDone,        \* the call is over
    \* --- the high-resolution rewrite applied to one URL, then to its result
    rwUrl,          \* the URL
    rwOut,          \* the results so far: <<>>, <<once>>, <<once, twice>>
    \* --- one _extract_highlights / _extract_services / _extract_promotions call
    listPage,       \* the page: [kind, selectors]
    listOut,        \* the list the call returned
    listDone,       \* the call has returned
    \* --- the site
    \* --- one scrape_product step of the e-commerce pipeline
    pipePc,         \* "idle" | "scrape" | "check" | "close" | "done"
    pipeUrl,        \* ctx.request["product_url"]
    pipeLog,        \* the calls made on the factory and the scraper, in order
    pipeResult,     \* what scraper.scrape() gave: "none" | "success" | "failure" | "raised"
    pipePending,    \* an exception is travelling through the finally clause
    pipeOutcome,    \* "none" | "returned" | "raised"
    site,           \* what the site shows to a scrape() call: "bare" pages
                    \* only, or any "product" page
    asks,           \* what the callers pass to scrape(): "any" arguments, or
                    \* the "defaults" of its signature with or without an
                    \* output directory
    \* --- the session mode
    headless,       \* self.headless
    headlessCtxs,   \* the handles of the contexts launched with headless=True
    \* --- the login_interactive() call
    loginPc,        \* the await the call is suspended at
    savedHeadless,  \* original_headless (Optional)
    loginPage,      \* the login page: [st, ctx]
    loginOutcome    \* "none" | "returned" | "raised"

instVars == <<context, playwright, engines, contexts, nextId>>
callVars == <<callers, pc, args, ctxSeen, page, product, jsonFile, dl, pending, raised,
              result, outcome>>
closeVars == <<closePc, closeResult, released, closeClean, priorClose>>
histVars == <<nscrapes, ncloses, launches, sessionCalls, passOrder, launched>>
worldVars == <<site, asks>>
modeVars == <<headless, headlessCtxs>>
loginVars == <<loginPc, savedHeadless, loginPage, loginOutcome>>
scraperVars == <<instVars, callVars, closeVars, histVars, worldVars, modeVars, loginVars>>
factoryVars == <<scrapers, imported, createArg, createResult>>
sellerVars == <<sellerPage, sellerOut, sellerDone>>
imgVars == <<imgPage, imgApi, imgOut, imgDone>>
rewriteVars == <<rwUrl, rwOut>>
listVars == <<listPage, listOut, listDone>>
pipeVars == <<pipePc, pipeUrl, pipeLog, pipeResult, pipePending, pipeOutcome>>
moreVars == <<rewriteVars, listVars, pipeVars>>
pureVars == <<sellerVars, imgVars, moreVars>>
\* What the actions of a TaobaoScraper instance leave alone.
otherVars == <<factoryVars, pureVars, worldVars, modeVars, loginVars>>

\* ------------------------------------------------------------ models.py
\* ScrapeResult: product and error default to None.
ScrapeResult(success, prod, err) ==
    [success |-> success, product |-> prod, error |-> err]

\* ProductInfo as _extract_product_info returns it, with n main images:
\* the artifact paths and local_images still hold their defaults.
ProductInfo(n) ==
    [main_images     |-> [i \in 1..n |-> i],
     local_images    |-> <<>>,
     screenshot_path |-> None,
     raw_html_path   |-> None,
     raw_json_path   |-> None]

\* ------------------------------------------------------------ scrape()
Args == [output_dir : BOOLEAN, download_images : BOOLEAN,
         save_html : BOOLEAN, take_screenshot : BOOLEAN]
NoArgs == [output_dir |-> FALSE, download_images |-> FALSE,
           save_html |-> FALSE, take_screenshot |-> FALSE]
\* output_dir=None, download_images=True, save_html=False, take_screenshot=False
DefaultArgs == [output_dir |-> FALSE, download_images |-> TRUE,
                save_html |-> FALSE, take_screenshot |-> FALSE]
\* The arguments the callers pass: scrape(url) or scrape(url, output_dir),
\* or any.
Asked(a) ==
    IF a = "defaults"
    THEN {DefaultArgs, [DefaultArgs EXCEPT !.output_dir = TRUE]}
    ELSE Args
\* nav: whether the responses of the page's navigation met a listener:
\* "none" before page.goto, then "heard" or "missed".  api: api_images;
\* heard: the responses intercept_response has handled, in order.
NoPage == [st |-> "none", ctx |-> NULL, listening |-> FALSE, gallery |-> "unknown",
           usable |-> TRUE, content |-> None, nav |-> "none", api |-> <<>>,
           heard |-> <<>>]
NoDl == [i |-> 0, local_images |-> <<>>, resp |-> <<>>]

\* The steps of scrape() that can raise.
SessionSteps == {"start", "profile_dir", "launch"}
PersistSteps == {"screenshot", "html", "json"}
Steps == SessionSteps \cup PersistSteps \cup
         {"output_dir", "new_page", "goto", "extract", "images_dir", "page_close"}

\* ------------------------------------------------ _extract_product_info
\* A text of the page: what it says, the length of the stripped text, whether
\* whitespace surrounds it, whether the stripped text is a number
\* (^[\d,]+\.?\d*$).
PageText(core, len, pad, numeric) ==
    [core |-> core, len |-> len, pad |-> pad, numeric |-> numeric]
\* text.strip()
Stripped(text) == [core |-> text.core, len |-> text.len]
\* ""
EmptyText == [core |-> "", len |-> 0]

MouseTitle == PageText("Premium Wireless Mouse", 22, TRUE, FALSE)
ShortTitle == PageText("Mouse", 5, FALSE, FALSE)
TabTitle == PageText("Wireless Mouse", 14, TRUE, FALSE)
BrandText == PageText("Anker", 5, FALSE, FALSE)
SiteName == PageText("taobao", 6, FALSE, FALSE)
PriceLabel == PageText("Price", 5, FALSE, FALSE)
PriceText == PageText("199.00", 6, TRUE, TRUE)
ShopText == PageText("Mouse Store", 11, TRUE, FALSE)
DescText == PageText("Silent clicks", 13, TRUE, FALSE)

\* A product page as the field extractors read it: the element each selector
\* of a chain finds (Optional), page.title() as its segments between "-",
\* the elements each price selector finds, the orange price container.
FieldPage(h1, page_title, spans, orange, shop, desc) ==
    [title_els  |-> <<h1, None, None, None, None>>,
     page_title |-> page_title,
     price_els  |-> <<spans, <<>>>>,
     orange     |-> orange,
     shop_els   |-> <<shop, None, None, None>>,
     desc       |-> desc]

\* The page on which no selector finds anything.
BarePage == FieldPage(None, <<>>, <<>>, None, None, None)

FieldPages ==
    {FieldPage(h1, page_title, spans, orange, shop, desc) :
        h1 \in {None, Some(MouseTitle), Some(ShortTitle)},
        page_title \in {<<>>, <<TabTitle, SiteName>>, <<BrandText, TabTitle, SiteName>>},
        spans \in {<<>>, <<PriceLabel, PriceText>>},
        orange \in {None, Some(PriceText)},
        shop \in {None, Some(ShopText)},
        desc \in {None, Some(DescText)}}

\* The pages a site may show.
Pages(s) == IF s = "product" THEN FieldPages ELSE {BarePage}

\* The selector loop of _extract_title: the first element whose stripped text
\* is longer than 5  (taobao.py:349-357)
RECURSIVE FirstTitle(_)
FirstTitle(els) ==
    IF els = <<>> THEN None
    ELSE IF Head(els) # None /\ Head(els)[1].len > 5 THEN Some(Stripped(Head(els)[1]))
    ELSE FirstTitle(Tail(els))

\* _extract_title  (taobao.py:339-365): else page_title.split("-")[0].strip(),
\* else "".
ExtractTitle(pg) ==
    IF FirstTitle(pg.title_els) # None THEN FirstTitle(pg.title_els)[1]
    ELSE IF pg.page_title # <<>> THEN Stripped(pg.page_title[1])
    ELSE EmptyText

\* The first element of one price selector whose stripped text is a number
\* (taobao.py:378-383)
RECURSIVE FirstNumber(_)
FirstNumber(els) ==
    IF els = <<>> THEN None
    ELSE IF Head(els).len > 0 /\ Head(els).numeric THEN Some(Stripped(Head(els)))
    ELSE FirstNumber(Tail(els))

RECURSIVE FirstPrice(_)
FirstPrice(selectors) ==
    IF selectors = <<>> THEN None
    ELSE IF FirstNumber(Head(selectors)) # None THEN FirstNumber(Head(selectors))
    ELSE FirstPrice(Tail(selectors))

\* _extract_price  (taobao.py:367-398): else the number in the orange
\* container, else None.
ExtractPrice(pg) ==
    IF FirstPrice(pg.price_els) # None THEN FirstPrice(pg.price_els)
    ELSE IF pg.orange # None /\ pg.orange[1].numeric THEN Some(Stripped(pg.orange[1]))
    ELSE None

\* _extract_shop_name  (taobao.py:400-420)
RECURSIVE ExtractShopName(_)
ExtractShopName(els) ==
    IF els = <<>> THEN None
    ELSE IF Head(els) # None /\ Head(els)[1].len > 0 THEN Some(Stripped(Head(els)[1]))
    ELSE ExtractShopName(Tail(els))

\* _extract_text  (taobao.py:422-431): text.strip() if text else None
ExtractText(el) ==
    IF el = None THEN None
    ELSE IF el[1].len = 0 /\ ~el[1].pad THEN None
    ELSE Some(Stripped(el[1]))

\* Mutant: a selector chain that finds nothing makes the extraction raise.
RaisesOnAbsentField(pg, usable) ==
    \/ ~usable
    \/ FirstPrice(pg.price_els) = None
    \/ pg.desc = None

\* What raises in _extract_product_info: the queries made outside any try
\* (page.title() at taobao.py:360, page.query_selector at 527), on a page
\* that is no longer usable; each selector chain swallows its own exceptions.
ExtractionRaises(pg, usable) == ~usable

\* The ProductInfo _extract_product_info returns on page pg with n main images
\* (taobao.py:293-337)
ProductInfoOf(pg, n) ==
    [title       |-> ExtractTitle(pg),
     price       |-> ExtractPrice(pg),
     shop_name   |-> ExtractShopName(pg.shop_els),
     description |-> ExtractText(pg.desc)] @@ ProductInfo(n)

\* Everything of a fresh TaobaoScraper but its caller and its site.
NoLoginPage == [st |-> "none", ctx |-> NULL]

InitInstance ==
    /\ headlessCtxs = {}
    /\ loginPc = "idle"
    /\ savedHeadless = None
    /\ loginPage = NoLoginPage
    /\ loginOutcome = "none"
    /\ context = NULL
    /\ playwright = NULL
    /\ engines = {}
    /\ contexts = {}
    /\ nextId = 1
    /\ pc = [c \in Calls |-> "idle"]
    /\ args = [c \in Calls |-> NoArgs]
    /\ ctxSeen = [c \in Calls |-> NULL]
    /\ page = [c \in Calls |-> NoPage]
    /\ product = [c \in Calls |-> None]
    /\ jsonFile = [c \in Calls |-> None]
    /\ dl = [c \in Calls |-> NoDl]
    /\ pending = [c \in Calls |-> None]
    /\ raised = [c \in Calls |-> {}]
    /\ result = [c \in Calls |-> None]
    /\ outcome = [c \in Calls |-> "none"]
    /\ closePc = "idle"
    /\ closeResult = "none"
    /\ released = 0
    /\ closeClean = FALSE
    /\ priorClose = "none"
    /\ ncloses = 0
    /\ launches = 0
    /\ sessionCalls = 0
    /\ passOrder = [c \in Calls |-> 0]
    /\ launched = [c \in Calls |-> FALSE]

InitScraper ==
    /\ callers = {"c1"}
    /\ nscrapes = 0
    /\ site = "bare"
    /\ asks = "any"
    /\ headless = TRUE
    /\ InitInstance

\* The instance with one scrape() call left to begin, on a site of many pages.
InitOneScrape ==
    /\ callers = {"c1"}
    /\ nscrapes = MaxScrapes - 1
    /\ site = "product"
    /\ asks = "any"
    /\ headless = TRUE
    /\ InitInstance

\* The instance with one scrape() call left to begin, on a site that answers
\* the page's requests.
InitTraffic ==
    /\ callers = {"c1"}
    /\ nscrapes = MaxScrapes - 1
    /\ site = "bare"
    /\ asks = "any"
    /\ headless = TRUE
    /\ InitInstance

\* The instance with two callers, whose scrape() calls may overlap.
InitShared ==
    /\ callers = Calls
    /\ nscrapes = 0
    /\ site = "bare"
    /\ asks = "defaults"
    /\ headless = TRUE
    /\ InitInstance

\* The instance with one scrape() call left to begin, constructed headless
\* or not.
InitLogin ==
    /\ callers = {"c1"}
    /\ nscrapes = MaxScrapes - 1
    /\ site = "bare"
    /\ asks = "any"
    /\ headless \in BOOLEAN
    /\ InitInstance

\* Mutant: _ensure_browser called before the try statement is entered.
CaughtInnerOnly(step) == step \in Steps \ SessionSteps

\* The outer try/except of scrape (taobao.py:170, 277): every step lies in it.
Caught(step) == step \in Steps

\* return ScrapeResult(success=True, product=product, ...)  (taobao.py:268-272)
ScrapeSuccess(p) == ScrapeResult(TRUE, Some(p), None)

\* Mutant: the failure envelope carries the partly built product along.
ScrapeFailureKeepsProduct(c, e) == ScrapeResult(FALSE, product[c], Some(e))

\* return ScrapeResult(success=False, error=str(e), ...)    (taobao.py:280-284)
ScrapeFailure(c, e) == ScrapeResult(FALSE, None, Some(e))

\* The call leaves scrape(): with the product when no exception travels, else
\* through the except clause, which turns the exception into a result.
Leave(c, exc) ==
    /\ pc' = [pc EXCEPT ![c] = "done"]
    /\ IF exc = None
       THEN /\ result' = [result EXCEPT ![c] = Some(ScrapeSuccess(product[c][1]))]
            /\ outcome' = [outcome EXCEPT ![c] = "returned"]
       ELSE IF Caught(exc[1])
            THEN /\ result' = [result EXCEPT ![c] = Some(ScrapeFailure(c, exc[1]))]
                 /\ outcome' = [outcome EXCEPT ![c] = "returned"]
            ELSE /\ result' = result
                 /\ outcome' = [outcome EXCEPT ![c] = "raised"]

\* A step before the inner try raises: straight to the except clause.
FailOutside(c, step) ==
    /\ raised' = [raised EXCEPT ![c] = @ \cup {step}]
    /\ Leave(c, Some(step))

\* A step inside the inner try raises: the finally clause runs first.
FailInside(c, step) ==
    /\ raised' = [raised EXCEPT ![c] = @ \cup {step}]
    /\ pending' = [pending EXCEPT ![c] = Some(step)]
    /\ pc' = [pc EXCEPT ![c] = "page_close"]

\* _ensure_browser has returned: the call is past session setup.
PastSession(c, didLaunch) ==
    /\ sessionCalls' = sessionCalls + 1
    /\ passOrder' = [passOrder EXCEPT ![c] = sessionCalls + 1]
    /\ launched' = [launched EXCEPT ![c] = didLaunch]

\* Mutant: _ensure_browser launches without testing self._context.
ScrapeBeginAlwaysLaunches(c) ==
    /\ c \in callers
    /\ pc[c] = "idle"
    /\ closePc = "idle"
    /\ loginPc \in {"idle", "done"}
    /\ nscrapes < MaxScrapes
    /\ nscrapes' = nscrapes + 1
    /\ \E a \in Asked(asks) : args' = [args EXCEPT ![c] = a]
    /\ closeResult' = "none"
    /\ pc' = [pc EXCEPT ![c] = "start"]
    /\ UNCHANGED <<instVars, callers, ctxSeen, page, product, jsonFile, dl, pending,
                   raised, result, outcome, closePc, released, closeClean,
                   priorClose, ncloses, launches, sessionCalls, passOrder, launched>>
    /\ UNCHANGED otherVars

\* scrape() is called: _ensure_browser tests self._context (taobao.py:171, 72).
ScrapeBegin(c) ==
    /\ c \in callers
    /\ pc[c] = "idle"
    /\ closePc = "idle"
    /\ loginPc \in {"idle", "done"}
    /\ nscrapes < MaxScrapes
    /\ nscrapes' = nscrapes + 1
    /\ \E a \in Asked(asks) : args' = [args EXCEPT ![c] = a]
    /\ closeResult' = "none"
    /\ IF context = NULL
       THEN /\ pc' = [pc EXCEPT ![c] = "start"]
            /\ UNCHANGED <<ctxSeen, sessionCalls, passOrder, launched>>
       ELSE /\ pc' = [pc EXCEPT ![c] = "output_dir"]
            /\ ctxSeen' = [ctxSeen EXCEPT ![c] = context]
            /\ PastSession(c, FALSE)
    /\ UNCHANGED <<instVars, callers, page, product, jsonFile, dl, pending, raised,
                   result, outcome, closePc, released, closeClean, priorClose,
                   ncloses, launches>>
    /\ UNCHANGED otherVars

\* await async_playwright().start(), then user_data_dir.mkdir (taobao.py:73-76)
StartEngine(c) ==
    /\ pc[c] = "start"
    /\ \/ /\ FailOutside(c, "start")
          /\ UNCHANGED <<instVars>>
       \/ /\ engines' = engines \cup {nextId}
          /\ playwright' = nextId
          /\ nextId' = nextId + 1
          /\ UNCHANGED <<context, contexts>>
          /\ \/ FailOutside(c, "profile_dir")
             \/ /\ pc' = [pc EXCEPT ![c] = "launch"]
                /\ UNCHANGED <<raised, result, outcome>>
    /\ UNCHANGED <<callers, args, ctxSeen, page, product, jsonFile, dl, pending,
                   closeVars, histVars>>
    /\ UNCHANGED otherVars

\* await self._playwright.chromium.launch_persistent_context(...) (taobao.py:81-88)
LaunchContext(c) ==
    /\ pc[c] = "launch"
    /\ \/ /\ FailOutside(c, "launch")
          /\ UNCHANGED <<instVars, headlessCtxs, ctxSeen, launches, sessionCalls,
                         passOrder, launched>>
       \/ /\ context' = nextId
          /\ contexts' = contexts \cup {nextId}
          /\ headlessCtxs' = IF headless THEN headlessCtxs \cup {nextId} ELSE headlessCtxs
          /\ nextId' = nextId + 1
          /\ launches' = launches + 1
          /\ ctxSeen' = [ctxSeen EXCEPT ![c] = nextId]
          /\ PastSession(c, TRUE)
          /\ pc' = [pc EXCEPT ![c] = "output_dir"]
          /\ UNCHANGED <<playwright, engines, raised, result, outcome>>
    /\ UNCHANGED <<callers, args, page, product, jsonFile, dl, pending, closeVars,
                   nscrapes, ncloses>>
    /\ UNCHANGED <<factoryVars, pureVars, worldVars, headless, loginVars>>

\* output_path.mkdir(parents=True, exist_ok=True)  (taobao.py:174-178)
OutputDir(c) ==
    /\ pc[c] = "output_dir"
    /\ IF args[c].output_dir
       THEN \/ FailOutside(c, "output_dir")
            \/ /\ pc' = [pc EXCEPT ![c] = "new_page"]
               /\ UNCHANGED <<raised, result, outcome>>
       ELSE /\ pc' = [pc EXCEPT ![c] = "new_page"]
            /\ UNCHANGED <<raised, result, outcome>>
    /\ UNCHANGED <<instVars, callers, args, ctxSeen, page, product, jsonFile, dl, pending,
                   closeVars, histVars>>
    /\ UNCHANGED otherVars

\* Mutant: page.on("response", ...) is left for after the navigation.
NewPageNoListener(c) ==
    /\ pc[c] = "new_page"
    /\ \/ /\ FailOutside(c, "new_page")
          /\ UNCHANGED page
       \/ /\ page' = [page EXCEPT ![c] = [st |-> "open", ctx |-> ctxSeen[c],
                                         listening |-> FALSE, gallery |-> "unknown",
                                         usable |-> TRUE, content |-> None,
                                         nav |-> "none", api |-> <<>>,
                                         heard |-> <<>>]]
          /\ pc' = [pc EXCEPT ![c] = "goto"]
          /\ UNCHANGED <<raised, result, outcome>>
    /\ UNCHANGED <<instVars, callers, args, ctxSeen, product, jsonFile, dl, pending,
                   closeVars, histVars>>
    /\ UNCHANGED otherVars

\* page = await self._context.new_page(); page.on("response", ...) (taobao.py:181-206)
NewPage(c) ==
    /\ pc[c] = "new_page"
    /\ \/ /\ FailOutside(c, "new_page")
          /\ UNCHANGED page
       \/ /\ page' = [page EXCEPT ![c] = [st |-> "open", ctx |-> ctxSeen[c],
                                         listening |-> TRUE, gallery |-> "unknown",
                                         usable |-> TRUE, content |-> None,
                                         nav |-> "none", api |-> <<>>,
                                         heard |-> <<>>]]
          /\ pc' = [pc EXCEPT ![c] = "goto"]
          /\ UNCHANGED <<raised, result, outcome>>
    /\ UNCHANGED <<instVars, callers, args, ctxSeen, product, jsonFile, dl, pending,
                   closeVars, histVars>>
    /\ UNCHANGED otherVars

\* responses intercept_response handles during one scrape call
MaxResponses == 2

\* A response as intercept_response reads it: "other" has a URL that is no
\* mtop detail call, "raises" makes response.url or response.text() raise,
\* "empty" holds no image URL, "found" holds urls.
ApiResponse(kind, urls) == [kind |-> kind, urls |-> urls]
ApiResponses ==
    {ApiResponse("other", <<1>>), ApiResponse("raises", <<1>>),
     ApiResponse("empty", <<>>), ApiResponse("found", <<1>>),
     ApiResponse("found", <<2, 1>>)}

\* Mutant: an exception of the handler travels into the call that opened the
\* page.
InterceptSurfaces(c) ==
    /\ page[c].st = "open"
    /\ page[c].listening
    /\ page[c].nav = "heard"
    /\ pc[c] \in {"wait_gallery", "extract", "screenshot", "html", "json", "images_dir",
                  "download"}
    /\ Len(page[c].heard) < MaxResponses
    /\ \E r \in ApiResponses :
          /\ page' = [page EXCEPT
                         ![c].heard = Append(@, r),
                         ![c].api = IF r.kind = "found" THEN @ \o r.urls ELSE @]
          /\ IF r.kind = "raises"
             THEN FailInside(c, "goto")
             ELSE UNCHANGED <<pc, pending, raised>>
    /\ UNCHANGED <<instVars, callers, args, ctxSeen, product, jsonFile, dl,
                   result, outcome, closeVars, histVars>>
    /\ UNCHANGED otherVars

\* intercept_response(response), run by the event loop while the call is
\* suspended: found URLs are appended to api_images, every exception is
\* swallowed  (taobao.py:186-203)
Intercept(c) ==
    /\ page[c].st = "open"
    /\ page[c].listening
    /\ page[c].nav = "heard"
    /\ pc[c] \in {"wait_gallery", "extract", "screenshot", "html", "json", "images_dir",
                  "download"}
    /\ Len(page[c].heard) < MaxResponses
    /\ \E r \in ApiResponses :
          page' = [page EXCEPT
                      ![c].heard = Append(@, r),
                      ![c].api = IF r.kind = "found" THEN @ \o r.urls ELSE @]
    /\ UNCHANGED <<instVars, callers, pc, args, ctxSeen, product, jsonFile, dl, pending,
                   raised, result, outcome, closeVars, histVars>>
    /\ UNCHANGED otherVars

\* await page.goto(url, ..., timeout=self.timeout); wait_for_timeout(3000)
\* (taobao.py:211-215)
Goto(c) ==
    /\ pc[c] = "goto"
    /\ page' = [page EXCEPT ![c].nav = IF page[c].listening THEN "heard" ELSE "missed"]
    /\ \/ FailInside(c, "goto")
       \/ /\ pc' = [pc EXCEPT ![c] = "wait_gallery"]
          /\ UNCHANGED <<pending, raised>>
    /\ UNCHANGED <<instVars, callers, args, ctxSeen, product, jsonFile, dl, result,
                   outcome, closeVars, histVars>>
    /\ UNCHANGED otherVars

\* Mutant: the gallery wait without a try/except of its own: its timeout
\* travels like the navigation's.
WaitGalleryAborts(c) ==
    /\ pc[c] = "wait_gallery"
    /\ \/ /\ page' = [page EXCEPT ![c].gallery = "found"]
          /\ pc' = [pc EXCEPT ![c] = "extract"]
          /\ UNCHANGED <<pending, raised>>
       \/ /\ page' = [page EXCEPT ![c].gallery = "timeout"]
          /\ FailInside(c, "goto")
    /\ UNCHANGED <<instVars, callers, args, ctxSeen, product, jsonFile, dl,
                   result, outcome, closeVars, histVars>>
    /\ UNCHANGED otherVars

\* await page.wait_for_selector("#picGalleryEle", timeout=10000) in its own
\* try/except; wait_for_timeout(2000)  (taobao.py:218-225)
WaitGallery(c) ==
    /\ pc[c] = "wait_gallery"
    /\ \E g \in {"found", "timeout"} : page' = [page EXCEPT ![c].gallery = g]
    /\ pc' = [pc EXCEPT ![c] = "extract"]
    /\ UNCHANGED <<instVars, callers, args, ctxSeen, product, jsonFile, dl, pending, raised,
                   result, outcome, closeVars, histVars>>
    /\ UNCHANGED otherVars

\* product = await self._extract_product_info(page, url, ...) (taobao.py:234)
Extract(c) ==
    /\ pc[c] = "extract"
    /\ \E pg \in Pages(site), usable \in BOOLEAN, n \in 0..MaxImages :
          /\ page' = [page EXCEPT ![c].usable = usable, ![c].content = Some(pg)]
          /\ IF ExtractionRaises(pg, usable)
             THEN /\ FailInside(c, "extract")
                  /\ UNCHANGED product
             ELSE /\ product' = [product EXCEPT ![c] = Some(ProductInfoOf(pg, n))]
                  /\ pc' = [pc EXCEPT ![c] = "screenshot"]
                  /\ UNCHANGED <<pending, raised>>
    /\ UNCHANGED <<instVars, callers, args, ctxSeen, jsonFile, dl, result, outcome,
                   closeVars, histVars>>
    /\ UNCHANGED otherVars

\* if take_screenshot and output_path: await page.screenshot(...) (taobao.py:237-241)
Screenshot(c) ==
    /\ pc[c] = "screenshot"
    /\ IF args[c].take_screenshot /\ args[c].output_dir
       THEN \/ /\ FailInside(c, "screenshot")
               /\ UNCHANGED product
            \/ /\ product' = [product EXCEPT
                                ![c][1].screenshot_path = Some("screenshot.png")]
               /\ pc' = [pc EXCEPT ![c] = "html"]
               /\ UNCHANGED <<pending, raised>>
       ELSE /\ pc' = [pc EXCEPT ![c] = "html"]
            /\ UNCHANGED <<product, pending, raised>>
    /\ UNCHANGED <<instVars, callers, args, ctxSeen, page, jsonFile, dl, result, outcome,
                   closeVars, histVars>>
    /\ UNCHANGED otherVars

\* if save_html and output_path: await page.content(); write (taobao.py:244-250)
SaveHtml(c) ==
    /\ pc[c] = "html"
    /\ IF args[c].save_html /\ args[c].output_dir
       THEN \/ /\ FailInside(c, "html")
               /\ UNCHANGED product
            \/ /\ product' = [product EXCEPT
                                ![c][1].raw_html_path = Some("page.html")]
               /\ pc' = [pc EXCEPT ![c] = "json"]
               /\ UNCHANGED <<pending, raised>>
       ELSE /\ pc' = [pc EXCEPT ![c] = "json"]
            /\ UNCHANGED <<product, pending, raised>>
    /\ UNCHANGED <<instVars, callers, args, ctxSeen, page, jsonFile, dl, result, outcome,
                   closeVars, histVars>>
    /\ UNCHANGED otherVars

\* if output_path: json.dump(product.model_dump(), f); then
\* product.raw_json_path = str(json_path)  (taobao.py:253-259)
SaveJson(c) ==
    /\ pc[c] = "json"
    /\ IF args[c].output_dir
       THEN \/ /\ FailInside(c, "json")
               /\ UNCHANGED <<product, jsonFile>>
            \/ /\ jsonFile' = [jsonFile EXCEPT ![c] = product[c]]
               /\ product' = [product EXCEPT
                                ![c][1].raw_json_path = Some("product_info.json")]
               /\ pc' = [pc EXCEPT ![c] = "images_dir"]
               /\ UNCHANGED <<pending, raised>>
       ELSE /\ pc' = [pc EXCEPT ![c] = "images_dir"]
            /\ UNCHANGED <<product, jsonFile, pending, raised>>
    /\ UNCHANGED <<instVars, callers, args, ctxSeen, page, dl, result, outcome,
                   closeVars, histVars>>
    /\ UNCHANGED otherVars

\* if download_images and output_path: _download_images begins with
\* images_dir.mkdir(exist_ok=True); local_images = []  (taobao.py:262-263, 702-705)
DownloadBegin(c) ==
    /\ pc[c] = "images_dir"
    /\ IF args[c].download_images /\ args[c].output_dir
       THEN \/ /\ FailInside(c, "images_dir")
               /\ UNCHANGED dl
            \/ /\ dl' = [dl EXCEPT ![c] = [i |-> 1, local_images |-> <<>>, resp |-> <<>>]]
               /\ pc' = [pc EXCEPT ![c] = "download"]
               /\ UNCHANGED <<pending, raised>>
       ELSE /\ pc' = [pc EXCEPT ![c] = "page_close"]
            /\ UNCHANGED <<dl, pending, raised>>
    /\ UNCHANGED <<instVars, callers, args, ctxSeen, page, product, jsonFile, result,
                   outcome, closeVars, histVars>>
    /\ UNCHANGED otherVars

\* What one turn of the download loop can meet: a 200 response whose body is
\* written to main_<i>; a response that is None or not 200 (the else branch);
\* an exception, of page.goto or of reading or writing the body (the except
\* branch).
Responses == {"200", "not200", "error"}

\* Mutant: the first image that cannot be saved ends the loop.
DownloadImageOrStop(c) ==
    /\ pc[c] = "download"
    /\ dl[c].i <= Len(product[c][1].main_images)
    /\ \E r \in Responses :
          dl' = [dl EXCEPT ![c] =
                    [i |-> IF r = "200" THEN @.i + 1
                           ELSE Len(product[c][1].main_images) + 1,
                     local_images |-> IF r = "200"
                                      THEN Append(@.local_images, @.i)
                                      ELSE @.local_images,
                     resp |-> Append(@.resp, r)]]
    /\ UNCHANGED <<instVars, callers, pc, args, ctxSeen, page, product, jsonFile, pending,
                   raised, result, outcome, closeVars, histVars>>
    /\ UNCHANGED otherVars

\* One turn of the download loop: response = await page.goto(url); a 200 is
\* written and its path main_<i> appended; anything else, an exception
\* included, is logged and skipped  (taobao.py:707-738)
DownloadImage(c) ==
    /\ pc[c] = "download"
    /\ dl[c].i <= Len(product[c][1].main_images)
    /\ \E r \in Responses :
          dl' = [dl EXCEPT ![c] =
                    [i |-> @.i + 1,
                     local_images |-> IF r = "200"
                                      THEN Append(@.local_images, @.i)
                                      ELSE @.local_images,
                     resp |-> Append(@.resp, r)]]
    /\ UNCHANGED <<instVars, callers, pc, args, ctxSeen, page, product, jsonFile, pending,
                   raised, result, outcome, closeVars, histVars>>
    /\ UNCHANGED otherVars

\* product.local_images = local_images  (taobao.py:740)
DownloadEnd(c) ==
    /\ pc[c] = "download"
    /\ dl[c].i > Len(product[c][1].main_images)
    /\ product' = [product EXCEPT ![c][1].local_images = dl[c].local_images]
    /\ pc' = [pc EXCEPT ![c] = "page_close"]
    /\ UNCHANGED <<instVars, callers, args, ctxSeen, page, jsonFile, dl, pending, raised,
                   result, outcome, closeVars, histVars>>
    /\ UNCHANGED otherVars

\* Mutant: an exception of page.close() is swallowed in the finally clause.
PageCloseFailureIgnored(c) ==
    /\ pc[c] = "page_close"
    /\ \/ /\ page' = [page EXCEPT ![c].st = "closed", ![c].listening = FALSE]
          /\ raised' = raised
       \/ /\ \E st \in {"open", "closed"} : page' = [page EXCEPT ![c].st = st]
          /\ raised' = [raised EXCEPT ![c] = @ \cup {"page_close"}]
    /\ Leave(c, pending[c])
    /\ UNCHANGED <<instVars, callers, args, ctxSeen, product, jsonFile, dl, pending,
                   closeVars, histVars>>
    /\ UNCHANGED otherVars

\* Mutant: page.close() as the last statement of the try body, not in finally.
PageCloseOnSuccessOnly(c) ==
    /\ pc[c] = "page_close"
    /\ IF pending[c] = None
       THEN page' = [page EXCEPT ![c].st = "closed", ![c].listening = FALSE]
       ELSE page' = page
    /\ raised' = raised
    /\ Leave(c, pending[c])
    /\ UNCHANGED <<instVars, callers, args, ctxSeen, product, jsonFile, dl, pending,
                   closeVars, histVars>>
    /\ UNCHANGED otherVars

\* finally: await page.close()  (taobao.py:274-275).  An exception raised by
\* page.close() replaces the return value or the exception that was travelling,
\* and whether the page is then gone is the browser's answer.
PageClose(c) ==
    /\ pc[c] = "page_close"
    /\ \/ /\ page' = [page EXCEPT ![c].st = "closed", ![c].listening = FALSE]
          /\ raised' = raised
          /\ Leave(c, pending[c])
       \/ /\ \E st \in {"open", "closed"} : page' = [page EXCEPT ![c].st = st]
          /\ FailOutside(c, "page_close")
    /\ UNCHANGED <<instVars, callers, args, ctxSeen, product, jsonFile, dl, pending,
                   closeVars, histVars>>
    /\ UNCHANGED otherVars

\* The caller has taken the result: the slot is free for the next call.
Consume(c) ==
    /\ pc[c] = "done"
    /\ pc' = [pc EXCEPT ![c] = "idle"]
    /\ args' = [args EXCEPT ![c] = NoArgs]
    /\ ctxSeen' = [ctxSeen EXCEPT ![c] = NULL]
    /\ page' = [page EXCEPT ![c] = NoPage]
    /\ product' = [product EXCEPT ![c] = None]
    /\ jsonFile' = [jsonFile EXCEPT ![c] = None]
    /\ dl' = [dl EXCEPT ![c] = NoDl]
    /\ pending' = [pending EXCEPT ![c] = None]
    /\ raised' = [raised EXCEPT ![c] = {}]
    /\ result' = [result EXCEPT ![c] = None]
    /\ outcome' = [outcome EXCEPT ![c] = "none"]
    /\ passOrder' = [passOrder EXCEPT ![c] = 0]
    /\ launched' = [launched EXCEPT ![c] = FALSE]
    /\ UNCHANGED <<instVars, callers, closeVars, nscrapes, ncloses, launches,
                   sessionCalls>>
    /\ UNCHANGED otherVars

\* ------------------------------------------------------------- close()
\* close() is called by the owner of the scraper between scrape() calls
\* (pipelines/ecommerce.py:190-211): no scrape() is in flight.
\* `if self._context:` / `if self._playwright:`  (taobao.py:94, 98)
CloseBegin ==
    /\ closePc = "idle"
    /\ loginPc \in {"idle", "done"}
    /\ \A c \in Calls : pc[c] = "idle"
    /\ ncloses < MaxCloses
    /\ ncloses' = ncloses + 1
    /\ released' = 0
    /\ closeClean' = (context = NULL /\ playwright = NULL)
    /\ priorClose' = closeResult
    /\ IF context # NULL
       THEN closePc' = "ctx_close" /\ closeResult' = "none"
       ELSE IF playwright # NULL
            THEN closePc' = "pw_stop" /\ closeResult' = "none"
            ELSE closePc' = "idle" /\ closeResult' = "returned"
    /\ UNCHANGED <<instVars, callVars, nscrapes, launches, sessionCalls,
                   passOrder, launched>>
    /\ UNCHANGED otherVars

\* Mutant: close() closes the context and forgets `self._context = None`.
CloseContextKeepsHandle ==
    /\ closePc = "ctx_close"
    /\ contexts' = contexts \ {context}
    /\ released' = released + 1
    /\ IF playwright # NULL
       THEN closePc' = "pw_stop" /\ closeResult' = "none"
       ELSE closePc' = "idle" /\ closeResult' = "returned"
    /\ UNCHANGED <<context, playwright, engines, nextId, callVars, closeClean,
                   priorClose, histVars>>
    /\ UNCHANGED otherVars

\* await self._context.close(); self._context = None  (taobao.py:95-97)
CloseContext ==
    /\ closePc = "ctx_close"
    /\ \/ /\ closePc' = "idle"
          /\ closeResult' = "raised"
          /\ UNCHANGED <<instVars, released, launches, sessionCalls>>
       \/ /\ contexts' = contexts \ {context}
          /\ context' = NULL
          /\ released' = released + 1
          /\ launches' = 0
          /\ sessionCalls' = 0
          /\ IF playwright # NULL
             THEN closePc' = "pw_stop" /\ closeResult' = "none"
             ELSE closePc' = "idle" /\ closeResult' = "returned"
          /\ UNCHANGED <<playwright, engines, nextId>>
    /\ UNCHANGED <<callVars, closeClean, priorClose, nscrapes, ncloses, passOrder,
                   launched>>
    /\ UNCHANGED otherVars

\* await self._playwright.stop(); self._playwright = None  (taobao.py:99-100)
StopEngine ==
    /\ closePc = "pw_stop"
    /\ \/ /\ closeResult' = "raised"
          /\ UNCHANGED <<instVars, released>>
       \/ /\ engines' = engines \ {playwright}
          /\ playwright' = NULL
          /\ released' = released + 1
          /\ closeResult' = "returned"
          /\ UNCHANGED <<context, contexts, nextId>>
    /\ closePc' = "idle"
    /\ UNCHANGED <<callVars, closeClean, priorClose, histVars>>
    /\ UNCHANGED otherVars

\* ---------------------------------------------------- login_interactive()
\* The call leaves login_interactive(): finally: self.headless =
\* original_headless  (taobao.py:132-133).  There is no except clause: an
\* exception goes on to the caller.
LoginLeave(how) ==
    /\ loginPc' = "done"
    /\ loginOutcome' = how
    /\ headless' = savedHeadless[1]

\* original_headless = self.headless; self.headless = False; _ensure_browser
\* tests self._context  (taobao.py:110-114, 72).  One call in a behaviour, made
\* while no other call on the instance is in flight.
LoginBegin ==
    /\ loginPc = "idle"
    /\ closePc = "idle"
    /\ \A c \in Calls : pc[c] = "idle"
    /\ savedHeadless' = Some(headless)
    /\ headless' = FALSE
    /\ loginPc' = IF context = NULL THEN "start" ELSE "new_page"
    /\ UNCHANGED <<instVars, headlessCtxs, loginPage, loginOutcome, callVars, closeVars,
                   histVars, worldVars, factoryVars, pureVars>>

\* await async_playwright().start(), then user_data_dir.mkdir (taobao.py:73-76)
LoginStartEngine ==
    /\ loginPc = "start"
    /\ \/ /\ LoginLeave("raised")
          /\ UNCHANGED instVars
       \/ /\ engines' = engines \cup {nextId}
          /\ playwright' = nextId
          /\ nextId' = nextId + 1
          /\ UNCHANGED <<context, contexts>>
          /\ \/ LoginLeave("raised")
             \/ /\ loginPc' = "launch"
                /\ UNCHANGED <<headless, loginOutcome>>
    /\ UNCHANGED <<headlessCtxs, savedHeadless, loginPage, callVars, closeVars, histVars,
                   worldVars, factoryVars, pureVars>>

\* launch_persistent_context(headless=self.headless, ...)  (taobao.py:81-88)
LoginLaunch ==
    /\ loginPc = "launch"
    /\ \/ /\ LoginLeave("raised")
          /\ UNCHANGED <<instVars, headlessCtxs, launches>>
       \/ /\ context' = nextId
          /\ contexts' = contexts \cup {nextId}
          /\ headlessCtxs' = IF headless THEN headlessCtxs \cup {nextId} ELSE headlessCtxs
          /\ nextId' = nextId + 1
          /\ launches' = launches + 1
          /\ loginPc' = "new_page"
          /\ UNCHANGED <<playwright, engines, headless, loginOutcome>>
    /\ UNCHANGED <<savedHeadless, loginPage, callVars, closeVars, nscrapes, ncloses,
                   sessionCalls, passOrder, launched, worldVars, factoryVars, pureVars>>

\* page = await self._context.new_page()  (taobao.py:115)
LoginNewPage ==
    /\ loginPc = "new_page"
    /\ \/ /\ LoginLeave("raised")
          /\ UNCHANGED loginPage
       \/ /\ loginPage' = [st |-> "open", ctx |-> context]
          /\ loginPc' = "goto"
          /\ UNCHANGED <<headless, loginOutcome>>
    /\ UNCHANGED <<instVars, headlessCtxs, savedHeadless, callVars, closeVars, histVars,
                   worldVars, factoryVars, pureVars>>

\* await page.goto(url)  (taobao.py:116)
LoginGoto ==
    /\ loginPc = "goto"
    /\ \/ LoginLeave("raised")
       \/ /\ loginPc' = "input"
          /\ UNCHANGED <<headless, loginOutcome>>
    /\ UNCHANGED <<instVars, headlessCtxs, savedHeadless, loginPage, callVars, closeVars,
                   histVars, worldVars, factoryVars, pureVars>>

\* input(">>> Press Enter after you have logged in... ")  (taobao.py:122)
LoginConfirm ==
    /\ loginPc = "input"
    /\ \/ LoginLeave("raised")
       \/ /\ loginPc' = "verify"
          /\ UNCHANGED <<headless, loginOutcome>>
    /\ UNCHANGED <<instVars, headlessCtxs, savedHeadless, loginPage, callVars, closeVars,
                   histVars, worldVars, factoryVars, pureVars>>

\* await page.goto("https://www.taobao.com"); wait_for_timeout(2000)
\* (taobao.py:125-126)
LoginVerify ==
    /\ loginPc = "verify"
    /\ \/ LoginLeave("raised")
       \/ /\ loginPc' = "page_close"
          /\ UNCHANGED <<headless, loginOutcome>>
    /\ UNCHANGED <<instVars, headlessCtxs, savedHeadless, loginPage, callVars, closeVars,
                   histVars, worldVars, factoryVars, pureVars>>

\* await page.close()  (taobao.py:130), the last statement of the try body
LoginPageClose ==
    /\ loginPc = "page_close"
    /\ \/ /\ \E st \in {"open", "closed"} : loginPage' = [loginPage EXCEPT !.st = st]
          /\ LoginLeave("raised")
       \/ /\ loginPage' = [loginPage EXCEPT !.st = "closed"]
          /\ LoginLeave("returned")
    /\ UNCHANGED <<instVars, headlessCtxs, savedHeadless, callVars, closeVars, histVars,
                   worldVars, factoryVars, pureVars>>

LoginStep ==
    \/ LoginBegin
    \/ LoginStartEngine
    \/ LoginLaunch
    \/ LoginNewPage
    \/ LoginGoto
    \/ LoginConfirm
    \/ LoginVerify
    \/ LoginPageClose

\* ------------------------------------------------------ ScraperFactory
\* A platform argument is a string, modelled as a sequence of tokens; a token
\* is a piece of text and the case it is written in.
Tok(text, upper) == [text |-> text, upper |-> upper]
TokenTexts == {"http", "://", "taobao.com", "tmall.com",
               "taobao", "tmall", "unknown-store", "/item"}
CasedTexts == {"http", "taobao.com", "taobao"}
Tokens == {Tok(t, FALSE) : t \in TokenTexts} \cup {Tok(t, TRUE) : t \in CasedTexts}

\* tokens in one create() argument
MaxTokens == 3

SeqsUpTo(S, n) == UNION {[1..k -> S] : k \in 1..n}
CreateArgs == SeqsUpTo(Tokens, MaxTokens)

\* str.lower()
Lower(str) == [i \in 1..Len(str) |-> Tok(str[i].text, FALSE)]

\* str.startswith(prefix), prefix a lower-case token text
StartsWith(str, prefix) == Len(str) > 0 /\ str[1] = Tok(prefix, FALSE)

\* `sub in str`, sub a lower-case token text
Contains(str, sub) == \E i \in 1..Len(str) : str[i] = Tok(sub, FALSE)

\* The platform key of one registered tag.
Key(tag) == <<Tok(tag, FALSE)>>

InitFactory ==
    /\ scrapers = <<>>
    /\ imported = 0
    /\ createArg = None
    /\ createResult = "none"

\* cls._scrapers[platform.lower()] = scraper_class  (base.py:80-82)
Registered(reg, platform, cls) ==
    [k \in DOMAIN reg \cup {Lower(platform)} |->
        IF k = Lower(platform) THEN cls ELSE reg[k]]

\* ScraperFactory.register("taobao", TaobaoScraper)  (taobao.py:745)
RegisterTaobao ==
    /\ imported = 0
    /\ scrapers' = Registered(scrapers, Key("taobao"), "TaobaoScraper")
    /\ imported' = 1
    /\ UNCHANGED <<createArg, createResult, scraperVars, pureVars>>

\* ScraperFactory.register("tmall", TaobaoScraper)  (taobao.py:746)
RegisterTmall ==
    /\ imported = 1
    /\ scrapers' = Registered(scrapers, Key("tmall"), "TaobaoScraper")
    /\ imported' = 2
    /\ UNCHANGED <<createArg, createResult, scraperVars, pureVars>>

\* Mutant: the URL scan knows taobao.com only.
DetectPlatformTaobaoOnly(url) ==
    IF Contains(url, "taobao.com") THEN Some(Key("taobao")) ELSE None

\* `if "taobao.com" in url or "tmall.com" in url: platform = "taobao"`, else
\* raise ValueError  (base.py:103-107); None stands for the raise.
DetectPlatform(url) ==
    IF Contains(url, "taobao.com") \/ Contains(url, "tmall.com")
    THEN Some(Key("taobao"))
    ELSE None

\* The platform key create() looks up, None when it has raised before the
\* lookup  (base.py:99-107).
PlatformKey(arg) ==
    LET platform == Lower(arg) IN
    IF StartsWith(platform, "http") THEN DetectPlatform(platform) ELSE Some(platform)

\* Mutant: __init__ starts the engine at once.
ConstructLaunches ==
    /\ engines' = engines \cup {nextId}
    /\ playwright' = nextId
    /\ nextId' = nextId + 1
    /\ context' = NULL
    /\ UNCHANGED contexts

\* TaobaoScraper.__init__: self._context = None; self._playwright = None
\* (taobao.py:59-68)
Construct ==
    /\ context' = NULL
    /\ playwright' = NULL
    /\ UNCHANGED <<engines, contexts, nextId>>

\* ScraperFactory.create(platform)  (base.py:84-112).  The package's __init__
\* imports taobao.py, so both register() calls have run before any caller's.
\* create() reads the registry and writes nothing shared: a behaviour holds
\* one call, with any argument.
Create(arg) ==
    /\ imported = 2
    /\ createResult = "none"
    /\ createArg' = Some(arg)
    /\ LET key == PlatformKey(arg) IN
       IF key # None /\ key[1] \in DOMAIN scrapers
       THEN /\ createResult' = scrapers[key[1]]
            /\ Construct
       ELSE /\ createResult' = "ValueError"
            /\ UNCHANGED instVars
    /\ UNCHANGED <<scrapers, imported, callVars, closeVars, histVars, pureVars,
                   worldVars, modeVars, loginVars>>

\* -------------------------------------------------- _extract_seller_id
\* A seller id is a run of 10 to 13 digits: its first seven digits and the rest.
SellerId(prefix, rest) == [prefix |-> prefix, rest |-> rest]
SellerA == SellerId("2211714", 1)
SellerB == SellerId("2211714", 2)
Generic == SellerId("6000000", 1)
SellerIds == {SellerA, SellerB, Generic}

\* Page markup, as far as the two regular expressions read it: a sequence of
\* matches, each `_!!<id>` (in an asset URL) or `sellerId": "<id>` (page data).
InUrl(id) == [kind |-> "_!!", id |-> id]
InData(id) == [kind |-> "sellerId", id |-> id]
MarkupTokens == {InUrl(id) : id \in SellerIds} \cup {InData(SellerB), InData(Generic)}

\* matches of the two patterns in one page's markup
MaxMarkup == 4

SeqsTo(S, n) == UNION {[1..k -> S] : k \in 0..n}

\* The markup of the documented example: A five times, B twice, the
\* platform-generic id ten times.
ExampleMarkup ==
    <<InUrl(Generic), InUrl(Generic), InUrl(SellerB), InUrl(Generic), InUrl(SellerA),
      InUrl(Generic), InUrl(SellerA), InUrl(Generic), InUrl(Generic), InUrl(SellerB),
      InUrl(SellerA), InUrl(Generic), InUrl(Generic), InUrl(SellerA), InUrl(Generic),
      InUrl(SellerA), InUrl(Generic)>>

NoSellerCall ==
    /\ sellerPage = [usable |-> TRUE, content |-> <<>>]
    /\ sellerOut = None
    /\ sellerDone = FALSE

InitSeller ==
    /\ sellerPage \in [usable : BOOLEAN,
                       content : SeqsTo(MarkupTokens, MaxMarkup) \cup {ExampleMarkup}]
    /\ sellerOut = None
    /\ sellerDone = FALSE

\* Mutant: no id counts as platform-generic.
NeverGeneric(id) == FALSE

\* id.startswith('6000000')  (taobao.py:671, 687)
IsGeneric(id) == id.prefix = "6000000"

IsRealInUrl(tok) == tok.kind = "_!!" /\ ~IsGeneric(tok.id)
IsInData(tok) == tok.kind = "sellerId"
IdsOf(toks) == [i \in 1..Len(toks) |-> toks[i].id]

\* Counter(ids)[x]
Count(ids, x) == Cardinality({i \in 1..Len(ids) : ids[i] = x})

\* Counter(ids).most_common(1)[0][0]: the maximum by count over the counter's
\* items, which stand in order of first insertion; max() keeps the first of
\* equal items  (taobao.py:675-679)
MostCommon(ids) ==
    LET best == CHOOSE i \in 1..Len(ids) :
                    /\ \A j \in 1..Len(ids) : Count(ids, ids[j]) <= Count(ids, ids[i])
                    /\ \A j \in 1..(i - 1) : Count(ids, ids[j]) < Count(ids, ids[i])
    IN  ids[best]

\* _extract_seller_id(page)  (taobao.py:656-693): None when page.content()
\* raises, else the vote over the `_!!` ids, else the first sellerId in the
\* page data unless that one is generic.
ExtractSellerId(pg) ==
    IF ~pg.usable THEN None
    ELSE LET real_ids == IdsOf(SelectSeq(pg.content, IsRealInUrl))
             data_ids == IdsOf(SelectSeq(pg.content, IsInData))
         IN  IF real_ids # <<>> THEN Some(MostCommon(real_ids))
             ELSE IF data_ids # <<>> /\ ~IsGeneric(data_ids[1]) THEN Some(data_ids[1])
             ELSE None

ExtractSeller ==
    /\ ~sellerDone
    /\ sellerOut' = ExtractSellerId(sellerPage)
    /\ sellerDone' = TRUE
    /\ UNCHANGED <<sellerPage, imgVars, moreVars, scraperVars, factoryVars>>

\* ------------------------------------------------ _extract_main_images
\* An image URL, as far as the resolver reads it: its content identifier (the
\* O1CN01... token, "none" when it has none), the seller id after `_!!`
\* (Optional), and the suffixes that follow, from the file extension on.
NoId == "none"
Url(cid, tag, sfx) == [cid |-> cid, tag |-> tag, sfx |-> sfx]
Q50Webp == <<".jpg", "_q50", ".jpg", "_.webp">>
PlainJpg == <<".jpg">>
Urls == {Url("a", Some(SellerA), Q50Webp), Url("a", Some(SellerA), PlainJpg),
         Url("a", Some(Generic), PlainJpg), Url("b", Some(SellerA), Q50Webp),
         Url("b", None, PlainJpg), Url(NoId, Some(SellerA), PlainJpg)}
\* What the interceptor's pattern can capture: URLs holding O1CN01.
ApiUrls == {Url("a", Some(SellerA), PlainJpg), Url("b", None, PlainJpg)}
\* The markup of the pages, by the seller id it votes for: none, A over B.
PageMarkups == {<<InUrl(Generic)>>,
                <<InUrl(SellerB), InUrl(Generic), InUrl(SellerA), InUrl(SellerA)>>}

\* thumbnails in the gallery
MaxThumbs == 3
\* intercepted candidates
MaxApi == 2

\* The call has not returned.
NoImages ==
    [raised |-> FALSE, images |-> <<>>, seller_id |-> None, main_images |-> <<>>]

NoImagesCall ==
    /\ imgPage = [usable |-> TRUE, content |-> <<>>, gallery |-> FALSE, thumbs |-> <<>>]
    /\ imgApi = <<>>
    /\ imgOut = NoImages
    /\ imgDone = FALSE

\* A thumbnail's src attribute: None when the img has none.
InitImages ==
    /\ imgPage \in [usable : BOOLEAN, content : PageMarkups, gallery : BOOLEAN,
                    thumbs : SeqsTo({Some(u) : u \in Urls} \cup {None}, MaxThumbs)]
    /\ imgApi \in SeqsTo(ApiUrls, MaxApi)
    /\ imgOut = NoImages
    /\ imgDone = FALSE

\* The srcs of the thumbnails that have one  (taobao.py:533-536)
RECURSIVE Srcs(_)
Srcs(thumbs) ==
    IF thumbs = <<>> THEN <<>>
    ELSE IF Head(thumbs) = None THEN Srcs(Tail(thumbs))
    ELSE <<Head(thumbs)[1]>> \o Srcs(Tail(thumbs))

\* Mutant: the intercepted URLs are added to the thumbnails' in every case.
CandidatesMixed(pg, api_images) ==
    (IF pg.gallery THEN Srcs(pg.thumbs) ELSE <<>>) \o api_images

\* The candidates: the gallery's thumbnails, and only when there are none,
\* api_images  (taobao.py:523-541)
Candidates(pg, api_images) ==
    LET main_images == IF pg.gallery THEN Srcs(pg.thumbs) ELSE <<>>
    IN  IF main_images = <<>> /\ api_images # <<>> THEN api_images ELSE main_images

DotFree(tok) == tok \in {"_q50", "_400x400"}
EndsWith(sfx, tail) ==
    Len(sfx) >= Len(tail) /\ SubSeq(sfx, Len(sfx) - Len(tail) + 1, Len(sfx)) = tail
DropLast(sfx, n) == SubSeq(sfx, 1, Len(sfx) - n)

\* re.sub(r'\.jpg_q\d+\.jpg_\.webp$', '.jpg_.webp', url)  (taobao.py:563)
Rule1(sfx) ==
    IF EndsWith(sfx, <<".jpg", "_q50", ".jpg", "_.webp">>)
    THEN DropLast(sfx, 4) \o <<".jpg", "_.webp">>
    ELSE sfx

\* re.sub(r'\.jpg_q\d+\.jpg$', '.jpg', clean_url)  (taobao.py:565)
Rule2(sfx) ==
    IF EndsWith(sfx, <<".jpg", "_q50", ".jpg">>)
    THEN DropLast(sfx, 3) \o <<".jpg">>
    ELSE sfx

\* re.sub(r'\.jpg_\d+x\d+[^.]*\.jpg_\.webp$', '.jpg_.webp', clean_url)
\* (taobao.py:567): [^.]* runs over any suffixes that hold no dot.
Rule3(sfx) ==
    LET n == Len(sfx)
        starts == {k \in 1..(n - 3) :
                      /\ sfx[k] = ".jpg"
                      /\ sfx[k + 1] = "_400x400"
                      /\ \A j \in (k + 2)..(n - 2) : DotFree(sfx[j])}
    IN  IF EndsWith(sfx, <<".jpg", "_.webp">>) /\ starts # {}
        THEN SubSeq(sfx, 1, (CHOOSE k \in starts : \A m \in starts : k <= m) - 1)
                 \o <<".jpg", "_.webp">>
        ELSE sfx

\* The high-resolution form of one URL  (taobao.py:560-567)
Clean(url) == [url EXCEPT !.sfx = Rule3(Rule2(Rule1(url.sfx)))]

\* Mutant: the identity filter lets every URL through.
NoUrlLacksSeller(url, seller_id) == FALSE

\* f"_!!{seller_id}" not in url  (taobao.py:549)
LacksSeller(url, seller_id) == url.tag # seller_id

\* Mutant: the content identifier is marked as seen before the identity
\* filter is applied.
RECURSIVE CleanedSeenFirst(_, _, _)
CleanedSeenFirst(urls, seller_id, seen_ids) ==
    IF urls = <<>> THEN <<>>
    ELSE LET url == Head(urls) IN
         IF url.cid = NoId \/ url.cid \in seen_ids
         THEN CleanedSeenFirst(Tail(urls), seller_id, seen_ids)
         ELSE IF seller_id # None /\ LacksSeller(url, seller_id)
         THEN CleanedSeenFirst(Tail(urls), seller_id, seen_ids \cup {url.cid})
         ELSE <<Clean(url)>>
                 \o CleanedSeenFirst(Tail(urls), seller_id, seen_ids \cup {url.cid})

\* Mutant: the loop ends at the first repeated content identifier.
RECURSIVE CleanedUntilRepeat(_, _, _)
CleanedUntilRepeat(urls, seller_id, seen_ids) ==
    IF urls = <<>> THEN <<>>
    ELSE LET url == Head(urls) IN
         IF seller_id # None /\ LacksSeller(url, seller_id)
         THEN CleanedUntilRepeat(Tail(urls), seller_id, seen_ids)
         ELSE IF url.cid = NoId
         THEN CleanedUntilRepeat(Tail(urls), seller_id, seen_ids)
         ELSE IF url.cid \in seen_ids THEN <<>>
         ELSE <<Clean(url)>>
                 \o CleanedUntilRepeat(Tail(urls), seller_id, seen_ids \cup {url.cid})

\* Mutant: the loop appends without looking at seen_ids.
RECURSIVE CleanedNoSeen(_, _, _)
CleanedNoSeen(urls, seller_id, seen_ids) ==
    IF urls = <<>> THEN <<>>
    ELSE LET url == Head(urls) IN
         IF seller_id # None /\ LacksSeller(url, seller_id)
         THEN CleanedNoSeen(Tail(urls), seller_id, seen_ids)
         ELSE IF url.cid = NoId
         THEN CleanedNoSeen(Tail(urls), seller_id, seen_ids)
         ELSE <<Clean(url)>> \o CleanedNoSeen(Tail(urls), seller_id, seen_ids)

\* The loop over main_images: skip a URL without the seller id, skip one
\* without a content identifier or with one already seen, append the cleaned
\* URL otherwise  (taobao.py:544-569)
RECURSIVE Cleaned(_, _, _)
Cleaned(urls, seller_id, seen_ids) ==
    IF urls = <<>> THEN <<>>
    ELSE LET url == Head(urls) IN
         IF seller_id # None /\ LacksSeller(url, seller_id)
         THEN Cleaned(Tail(urls), seller_id, seen_ids)
         ELSE IF url.cid = NoId \/ url.cid \in seen_ids
         THEN Cleaned(Tail(urls), seller_id, seen_ids)
         ELSE <<Clean(url)>> \o Cleaned(Tail(urls), seller_id, seen_ids \cup {url.cid})

\* _extract_main_images(page, api_images)  (taobao.py:503-572): it raises when
\* page.query_selector does, on a page that is no longer usable.
ExtractMainImagesOf(pg, api_images) ==
    IF ~pg.usable THEN [NoImages EXCEPT !.raised = TRUE]
    ELSE LET seller_id == ExtractSellerId(pg)
             main_images == Candidates(pg, api_images)
         IN  [raised |-> FALSE,
              images |-> Cleaned(main_images, seller_id, {}),
              seller_id |-> seller_id,
              main_images |-> main_images]

ExtractMainImages ==
    /\ ~imgDone
    /\ imgOut' = ExtractMainImagesOf(imgPage, imgApi)
    /\ imgDone' = TRUE
    /\ UNCHANGED <<imgPage, imgApi, sellerVars, moreVars, scraperVars, factoryVars>>

\* ------------------------------------------- the high-resolution rewrite
\* The suffixes a CDN URL carries after its name: extensions, a quality
\* suffix (_q\d+), a dimension suffix (_\d+x\d+) and the format marker.
SuffixTokens == {".jpg", ".png", "_q50", "_400x400", "_.webp"}

\* suffixes stacked on one URL
MaxSuffixes == 5

NoRewrite ==
    /\ rwUrl = Url("a", Some(SellerA), PlainJpg)
    /\ rwOut = <<>>

InitRewrite ==
    /\ rwUrl \in {Url("a", Some(SellerA), sfx) : sfx \in SeqsTo(SuffixTokens, MaxSuffixes)}
    /\ rwOut = <<>>

\* The three re.sub calls applied to the URL, then to what they returned
\* (taobao.py:563-567)
Resolve ==
    /\ Len(rwOut) < 2
    /\ rwOut' = Append(rwOut, Clean(IF rwOut = <<>> THEN rwUrl ELSE rwOut[Len(rwOut)]))
    /\ UNCHANGED <<rwUrl, listVars, pipeVars, sellerVars, imgVars, scraperVars,
                   factoryVars>>

\* ------------------ _extract_highlights, _extract_services, _extract_promotions
Kinds == {"highlights", "services", "promotions"}

\* len(selectors)  (taobao.py:436-443, 461-466, 483-489)
SelectorCount(kind) ==
    CASE kind = "highlights" -> 6 [] kind = "services" -> 4 [] kind = "promotions" -> 5

\* elements[:10], elements[:10], elements[:5]  (taobao.py:448, 471, 494)
PerSelector(kind) ==
    CASE kind = "highlights" -> 10 [] kind = "services" -> 10 [] kind = "promotions" -> 5

\* [:8], [:6], [:5]  (taobao.py:456, 478, 501)
Cap(kind) ==
    CASE kind = "highlights" -> 8 [] kind = "services" -> 6 [] kind = "promotions" -> 5

\* len(text.strip()) > 2 and < 50; for promotions > 3 and < 100
\* (taobao.py:450, 473, 496)
Longer(kind) == IF kind = "promotions" THEN 3 ELSE 2
Shorter(kind) == IF kind = "promotions" THEN 100 ELSE 50

\* An element's text: what it says, the length of the stripped text, whether
\* whitespace surrounds it; raises: el.inner_text() raises on this element.
Element(core, len, pad, raises) ==
    [core |-> core, len |-> len, pad |-> pad, raises |-> raises]
\* text.strip()
Strip(el) == [core |-> el.core, len |-> el.len]
\* Stripped lengths on both sides of the two length tests.
Lens == {0, 3, 4, 50}

\* elements matched by the first selector
MaxElements == 11
\* elements matched by the second selector
MaxSecond == 5

\* n elements saying first, first + step, ...
Elements(n, first, step, len, pad) ==
    [j \in 1..n |-> Element(first + step * (j - 1), len, pad, FALSE)]

\* What one selector finds: queryRaises: page.query_selector_all raises.
Found(els, queryRaises) == [els |-> els, queryRaises |-> queryRaises]

\* A page on which the first two selectors of the kind match n1 and n2
\* elements and the others match none; the second selector's elements repeat
\* the first one's (overlap) or say something new; whitespace surrounds the
\* texts of the first selector's elements.
ListPage(kind, n1, n2, overlap, step, len, fail) ==
    LET els1 == Elements(n1, 1, step, len, TRUE)
        els2 == Elements(n2, IF overlap THEN 1 ELSE n1 + 1, step, 4, FALSE)
        last2 == IF fail = "inner_text" /\ n2 > 0
                 THEN [els2 EXCEPT ![n2].raises = TRUE]
                 ELSE els2
    IN  [kind |-> kind,
         selectors |-> [k \in 1..SelectorCount(kind) |->
                          IF k = 1 THEN Found(els1, fail = "query")
                          ELSE IF k = 2 THEN Found(last2, FALSE)
                          ELSE Found(<<>>, FALSE)]]

NoListCall ==
    /\ listPage = ListPage("highlights", 0, 0, FALSE, 1, 4, "none")
    /\ listOut = <<>>
    /\ listDone = FALSE

InitLists ==
    /\ listPage \in {ListPage(kind, n1, n2, overlap, step, len, fail) :
                        kind \in Kinds, n1 \in 0..MaxElements, n2 \in 0..MaxSecond,
                        overlap \in BOOLEAN, step \in {0, 1}, len \in Lens,
                        fail \in {"none", "query", "inner_text"}}
    /\ listOut = <<>>
    /\ listDone = FALSE

\* seq[:n]
Take(seq, n) == SubSeq(seq, 1, IF Len(seq) < n THEN Len(seq) ELSE n)

\* if text and lo < len(text.strip()) < hi
ValidText(kind, el) == el.len > Longer(kind) /\ el.len < Shorter(kind)

\* The loop over the elements of one selector: an exception of inner_text
\* ends it, and what was appended before stays  (taobao.py:448-453)
RECURSIVE Appended(_, _)
Appended(kind, els) ==
    IF els = <<>> THEN <<>>
    ELSE IF Head(els).raises THEN <<>>
    ELSE (IF ValidText(kind, Head(els)) THEN <<Strip(Head(els))>> ELSE <<>>)
             \o Appended(kind, Tail(els))

\* The loop over the selectors  (taobao.py:445-453)
RECURSIVE Gathered(_, _)
Gathered(kind, selectors) ==
    IF selectors = <<>> THEN <<>>
    ELSE (IF Head(selectors).queryRaises THEN <<>>
          ELSE Appended(kind, Take(Head(selectors).els, PerSelector(kind))))
             \o Gathered(kind, Tail(selectors))

\* Mutant: the list as gathered, duplicates and all.
WithDuplicates(seq, seen) == seq

\* list(dict.fromkeys(seq)): first occurrences, in order  (taobao.py:456)
RECURSIVE FromKeys(_, _)
FromKeys(seq, seen) ==
    IF seq = <<>> THEN <<>>
    ELSE IF Head(seq) \in seen THEN FromKeys(Tail(seq), seen)
    ELSE <<Head(seq)>> \o FromKeys(Tail(seq), seen \cup {Head(seq)})

\* _extract_highlights / _extract_services / _extract_promotions
\* (taobao.py:433-501)
ExtractListOf(pg) ==
    Take(FromKeys(Gathered(pg.kind, pg.selectors), {}), Cap(pg.kind))

ExtractList ==
    /\ ~listDone
    /\ listOut' = ExtractListOf(listPage)
    /\ listDone' = TRUE
    /\ UNCHANGED <<listPage, rewriteVars, pipeVars, sellerVars, imgVars, scraperVars,
                   factoryVars>>

\* ------------------------------------------- pipeline: scrape_product
NoPipeCall ==
    /\ pipePc = "idle"
    /\ pipeUrl = <<>>
    /\ pipeLog = <<>>
    /\ pipeResult = "none"
    /\ pipePending = FALSE
    /\ pipeOutcome = "none"

\* The step is about to run on a request with any product_url.
InitPipe ==
    /\ pipePc = "idle"
    /\ pipeUrl \in CreateArgs
    /\ pipeLog = <<>>
    /\ pipeResult = "none"
    /\ pipePending = FALSE
    /\ pipeOutcome = "none"

\* The package has been imported: both register() calls have run
\* (taobao.py:745-746).
InitImported ==
    /\ scrapers = Registered(Registered(<<>>, Key("taobao"), "TaobaoScraper"),
                             Key("tmall"), "TaobaoScraper")
    /\ imported = 2
    /\ createArg = None
    /\ createResult = "none"

\* scraper = ScraperFactory.from_url(product_url, headless=True), before the
\* try statement  (pipelines/ecommerce.py:188; base.py:115-126, 84-112)
PipeCreate ==
    /\ pipePc = "idle"
    /\ createArg' = Some(pipeUrl)
    /\ LET key == PlatformKey(pipeUrl) IN
       IF key # None /\ key[1] \in DOMAIN scrapers
       THEN /\ createResult' = scrapers[key[1]]
            /\ Construct
            /\ headless' = TRUE
            /\ pipeLog' = Append(pipeLog, "create")
            /\ pipePc' = "scrape"
            /\ UNCHANGED pipeOutcome
       ELSE /\ createResult' = "ValueError"
            /\ pipePc' = "done"
            /\ pipeOutcome' = "raised"
            /\ UNCHANGED <<instVars, headless, pipeLog>>
    /\ UNCHANGED <<pipeUrl, pipeResult, pipePending, scrapers, imported, callVars,
                   closeVars, histVars, worldVars, headlessCtxs, loginVars, sellerVars,
                   imgVars, rewriteVars, listVars>>

\* result = await scraper.scrape(url=product_url, ...)  (pipelines/
\* ecommerce.py:192-198): the call returns a result with success true or
\* false, or raises what its except Exception does not catch.
PipeScrape ==
    /\ pipePc = "scrape"
    /\ pipeLog' = Append(pipeLog, "scrape")
    /\ \E r \in {"success", "failure", "raised"} :
          /\ pipeResult' = r
          /\ pipePending' = (r = "raised")
          /\ pipePc' = IF r = "raised" THEN "close" ELSE "check"
    /\ UNCHANGED <<pipeUrl, pipeOutcome, scraperVars, factoryVars, sellerVars, imgVars,
                   rewriteVars, listVars>>

\* Mutant: the failed result is raised past the finally clause.
PipeCheckSkipsClose ==
    /\ pipePc = "check"
    /\ IF pipeResult = "failure"
       THEN /\ pipePc' = "done"
            /\ pipeOutcome' = "raised"
            /\ pipePending' = TRUE
       ELSE /\ pipePc' = "close"
            /\ UNCHANGED <<pipeOutcome, pipePending>>
    /\ UNCHANGED <<pipeUrl, pipeLog, pipeResult, scraperVars, factoryVars, sellerVars,
                   imgVars, rewriteVars, listVars>>

\* if not result.success: raise ValueError(...); else the product is kept
\* (pipelines/ecommerce.py:200-208)
PipeCheck ==
    /\ pipePc = "check"
    /\ pipePending' = (pipeResult = "failure")
    /\ pipePc' = "close"
    /\ UNCHANGED <<pipeUrl, pipeLog, pipeResult, pipeOutcome, scraperVars, factoryVars,
                   sellerVars, imgVars, rewriteVars, listVars>>

\* finally: await scraper.close()  (pipelines/ecommerce.py:210-211); close()
\* returns or raises, and the step returns only when nothing was raised.
PipeClose ==
    /\ pipePc = "close"
    /\ pipeLog' = Append(pipeLog, "close")
    /\ pipePc' = "done"
    /\ \E closeRaises \in BOOLEAN :
          pipeOutcome' = IF pipePending \/ closeRaises THEN "raised" ELSE "returned"
    /\ UNCHANGED <<pipeUrl, pipeResult, pipePending, scraperVars, factoryVars, sellerVars,
                   imgVars, rewriteVars, listVars>>

PipeStep ==
    \/ PipeCreate
    \/ PipeScrape
    \/ PipeCheck
    \/ PipeClose

ScrapeStep(c) ==
    \/ ScrapeBegin(c)
    \/ StartEngine(c)
    \/ LaunchContext(c)
    \/ OutputDir(c)
    \/ NewPage(c)
    \/ Goto(c)
    \/ WaitGallery(c)
    \/ Extract(c)
    \/ Screenshot(c)
    \/ SaveHtml(c)
    \/ SaveJson(c)
    \/ DownloadBegin(c)
    \/ DownloadImage(c)
    \/ DownloadEnd(c)
    \/ PageClose(c)
    \/ Consume(c)

CloseStep == CloseBegin \/ CloseContext \/ StopEngine

vars == <<scraperVars, factoryVars, pureVars>>

NoMore == NoRewrite /\ NoListCall /\ NoPipeCall

Init == InitScraper /\ InitFactory /\ NoSellerCall /\ NoImagesCall /\ NoMore

Next == (\E c \in Calls : ScrapeStep(c)) \/ CloseStep

Spec == Init /\ [][Next]_vars

NextFactory == RegisterTaobao \/ RegisterTmall \/ (\E arg \in CreateArgs : Create(arg))

SpecFactory == Init /\ [][NextFactory]_vars

NextSeller == ExtractSeller

InitSellerCall == InitScraper /\ InitFactory /\ InitSeller /\ NoImagesCall /\ NoMore

SpecSeller == InitSellerCall /\ [][NextSeller]_vars

NextImages == ExtractMainImages

InitImagesCall == InitScraper /\ InitFactory /\ NoSellerCall /\ InitImages /\ NoMore

SpecImages == InitImagesCall /\ [][NextImages]_vars

NextRewrite == Resolve

InitRewriteCall ==
    InitScraper /\ InitFactory /\ NoSellerCall /\ NoImagesCall /\ InitRewrite
        /\ NoListCall /\ NoPipeCall

SpecRewrite == InitRewriteCall /\ [][NextRewrite]_vars

NextLists == ExtractList

InitListsCall ==
    InitScraper /\ InitFactory /\ NoSellerCall /\ NoImagesCall /\ NoRewrite
        /\ InitLists /\ NoPipeCall

SpecLists == InitListsCall /\ [][NextLists]_vars

NextFields == ScrapeStep("c1")

InitFieldsCall ==
    InitOneScrape /\ InitFactory /\ NoSellerCall /\ NoImagesCall /\ NoMore

SpecFields == InitFieldsCall /\ [][NextFields]_vars

NextPipeline == PipeStep

InitPipelineCall ==
    InitScraper /\ InitImported /\ NoSellerCall /\ NoImagesCall /\ NoRewrite
        /\ NoListCall /\ InitPipe

SpecPipeline == InitPipelineCall /\ [][NextPipeline]_vars

NextIntercept == ScrapeStep("c1") \/ Intercept("c1")

InitInterceptCall ==
    InitTraffic /\ InitFactory /\ NoSellerCall /\ NoImagesCall /\ NoMore

SpecIntercept == InitInterceptCall /\ [][NextIntercept]_vars

NextConcurrent == \E c \in Calls : ScrapeStep(c)

InitConcurrentCall ==
    InitShared /\ InitFactory /\ NoSellerCall /\ NoImagesCall /\ NoMore

SpecConcurrent == InitConcurrentCall /\ [][NextConcurrent]_vars

NextLogin == ScrapeStep("c1") \/ LoginStep

InitLoginCall ==
    InitLogin /\ InitFactory /\ NoSellerCall /\ NoImagesCall /\ NoMore

SpecLogin == InitLoginCall /\ [][NextLogin]_vars
\* ================================================================ claims
\* ---------------------------------------------------------------- Spec

\* C1: whatever steps of a scrape call succeeded or raised, the ScrapeResult it
\* returns has exactly one of product and error set: product is set iff success
\* is true, error is set iff success is false.
C1_ExactlyOneOfProductError ==
    \A c \in Calls :
        outcome[c] = "returned" =>
            LET r == result[c][1] IN
            /\ (r.product # None) <=> r.success
            /\ (r.error # None) <=> ~r.success
            /\ (r.product # None) # (r.error # None)

\* A call that had built its product and then failed has returned.
C1_Witness ==
    \E c \in Calls :
        /\ outcome[c] = "returned"
        /\ product[c] # None
        /\ ~result[c][1].success

\* C2: scrape never raises: a call that has left scrape has returned a
\* ScrapeResult, and when any step raised, the result has success false and an
\* error message.
C2_ScrapeNeverRaises ==
    \A c \in Calls :
        pc[c] = "done" =>
            /\ outcome[c] = "returned"
            /\ result[c] # None
            /\ raised[c] # {} =>
                  /\ ~result[c][1].success
                  /\ result[c][1].error # None

\* The browser failed to launch and the call has left scrape.
C2_Witness ==
    \E c \in Calls : pc[c] = "done" /\ "launch" \in raised[c]

\* C3 (as claimed): when only persistence steps raised, the call returns
\* success with the extracted product.
C3_PersistenceFailureNotFatal ==
    \A c \in Calls :
        (outcome[c] = "returned" /\ raised[c] # {} /\ raised[c] \subseteq PersistSteps)
            => /\ result[c][1].success
               /\ result[c][1].product = product[c]

\* C4: a page opened by a scrape call is closed when the call has left scrape,
\* on the success path and when navigation, extraction, persistence or the
\* download raised (page.close() is called on every path; the page stays only
\* when page.close() itself raised).
C4_PageClosedOnEveryExit ==
    \A c \in Calls :
        (pc[c] = "done" /\ page[c].st # "none" /\ "page_close" \notin raised[c])
            => page[c].st = "closed"

\* Navigation raised, and the call has left scrape with its page closed.
C4_Witness ==
    \E c \in Calls :
        pc[c] = "done" /\ "goto" \in raised[c] /\ page[c].st = "closed"

\* C7: in calls issued one after another with no close() that released the
\* context in between, the context is launched once, by the first call that gets
\* past session setup; every later call finds it cached and launches nothing,
\* and no step of scrape releases or replaces it.
C7_SessionSetupIdempotent ==
    /\ launches <= 1
    /\ \A c \in Calls :
          passOrder[c] > 0 =>
              /\ launches = 1
              /\ context # NULL
              /\ ctxSeen[c] = context
              /\ context \in contexts
              /\ launched[c] <=> passOrder[c] = 1

\* A second call has run to a successful return on the cached context.
C7_Witness ==
    \E c \in Calls :
        /\ passOrder[c] = 2
        /\ outcome[c] = "returned"
        /\ result[c][1].success

\* C8: when close() returns, both handles are None, in whatever state it was
\* called; a close() called when both are None, in particular one that follows
\* a close() that returned, releases nothing and raises nothing.
C8_CloseIdempotent ==
    /\ closeResult = "returned" => (context = NULL /\ playwright = NULL)
    /\ (closePc = "idle" /\ closeResult # "none"
          /\ (closeClean \/ priorClose = "returned"))
       => (closeResult = "returned" /\ released = 0)

\* A launched scraper was closed, and a second close() has returned.
C8_Witness ==
    /\ priorClose = "returned"
    /\ closeResult = "returned"
    /\ nextId >= 3
    /\ contexts = {}
    /\ engines = {}
\* --------------------------------------------------------- SpecFactory
\* What the claims call the input, read off the argument itself.
KnownDomains == {"taobao.com", "tmall.com"}
RegisteredTags == {"taobao", "tmall"}
IsRegisteredTag(arg) == Len(arg) = 1 /\ arg[1].text \in RegisteredTags
HasKnownDomain(arg) == \E i \in 1..Len(arg) : arg[i].text \in KnownDomains
HasHttpPrefix(arg) == arg[1].text = "http"

\* C5: create() with an unknown platform tag, or with a URL that has no known
\* domain, raises ValueError; and when create() is over, whether it raised or
\* built a scraper, no engine has been started and no context launched.
C5_UnknownPlatformRaisesBeforeBrowser ==
    createResult # "none" =>
        /\ (~IsRegisteredTag(createArg[1]) /\ ~HasKnownDomain(createArg[1]))
              => createResult = "ValueError"
        /\ engines = {}
        /\ contexts = {}
        /\ context = NULL
        /\ playwright = NULL

\* create("unknown-store") has raised.
C5_Witness ==
    /\ createArg = Some(<<Tok("unknown-store", FALSE)>>)
    /\ createResult = "ValueError"

\* C6 (as claimed): create(x) builds the scraper exactly when x is a registered
\* tag or contains a known domain, with or without the http prefix.
C6_CreateForAnyUrlForm ==
    createResult # "none" =>
        (createResult = "TaobaoScraper"
            <=> (IsRegisteredTag(createArg[1]) \/ HasKnownDomain(createArg[1])))

\* C6 (amended): create(x) builds the scraper exactly when x is, in any letter
\* case, a registered tag, or starts with http and contains a known domain; it
\* raises ValueError for every other input.
C6_CreateByTagOrHttpUrl ==
    createResult # "none" =>
        /\ createResult \in {"TaobaoScraper", "ValueError"}
        /\ createResult = "TaobaoScraper"
              <=> \/ IsRegisteredTag(createArg[1])
                  \/ HasHttpPrefix(createArg[1]) /\ HasKnownDomain(createArg[1])

\* create("HTTP://Tmall.com/item"-like input: upper-case scheme, tmall domain)
\* has built a scraper.
C6_Witness ==
    /\ createResult = "TaobaoScraper"
    /\ createArg # None
    /\ Len(createArg[1]) = 3
    /\ createArg[1][1] = Tok("http", TRUE)
    /\ createArg[1][3] = Tok("tmall.com", FALSE)

\* ------------------------------------------------------------ SpecSeller
\* The `_!!` matches of the page markup that are outside the generic range.
RealMatches == {i \in 1..Len(sellerPage.content) :
                   /\ sellerPage.content[i].kind = "_!!"
                   /\ sellerPage.content[i].id.prefix # "6000000"}
Occurrences(id) == Cardinality({i \in RealMatches : sellerPage.content[i].id = id})
FirstMatch(id) ==
    CHOOSE i \in RealMatches :
        /\ sellerPage.content[i].id = id
        /\ \A j \in RealMatches : sellerPage.content[j].id = id => i <= j

\* C10: the seller identity chosen from the markup of a readable page is never
\* a platform-generic id (one starting with 6000000); when the markup holds
\* `_!!` ids outside that range, the chosen one is among them, no other of
\* them occurs more often, and of those that occur as often it is the first in
\* scan order; for A five times, B twice and the generic id ten times it is A.
C10_SellerVote ==
    (sellerDone /\ sellerPage.usable) =>
        /\ sellerOut # None => sellerOut[1].prefix # "6000000"
        /\ RealMatches # {} =>
              /\ sellerOut # None
              /\ \E i \in RealMatches : sellerPage.content[i].id = sellerOut[1]
              /\ \A j \in RealMatches :
                    LET other == sellerPage.content[j].id IN
                    \/ Occurrences(other) < Occurrences(sellerOut[1])
                    \/ /\ Occurrences(other) = Occurrences(sellerOut[1])
                       /\ FirstMatch(sellerOut[1]) <= FirstMatch(other)
        /\ sellerPage.content = ExampleMarkup => sellerOut = Some(SellerA)

\* B and A tie, B comes first, the generic id is the most frequent: B is chosen.
C10_Witness ==
    /\ sellerDone
    /\ sellerPage.usable
    /\ sellerOut = Some(SellerB)
    /\ Occurrences(SellerA) = Occurrences(SellerB)
    /\ Cardinality({i \in 1..Len(sellerPage.content) :
                       sellerPage.content[i] = InUrl(Generic)}) > Occurrences(SellerB)

\* ------------------------------------------------------------ SpecImages
\* The candidate list of the call and the seller identity it found, and the
\* positions in the list that pass the identity filter.
CandidateList == imgOut.main_images
Passing == {k \in 1..Len(CandidateList) :
               \/ imgOut.seller_id = None
               \/ CandidateList[k].tag = imgOut.seller_id}
FirstSeen(cid) ==
    CHOOSE k \in 1..Len(CandidateList) :
        /\ CandidateList[k].cid = cid
        /\ \A m \in 1..Len(CandidateList) : CandidateList[m].cid = cid => k <= m
FirstPassing(cid) ==
    CHOOSE k \in Passing :
        /\ CandidateList[k].cid = cid
        /\ \A m \in Passing : CandidateList[m].cid = cid => k <= m
DistinctIds(out) ==
    \A i, j \in 1..Len(out) : i # j => out[i].cid # out[j].cid

\* C9 as stated: the output holds each content identifier at most once, and
\* its URLs stand in the order in which their identifiers were first seen in
\* the candidate list.
C9_FirstSeenInCandidateList ==
    (imgDone /\ ~imgOut.raised) =>
        /\ DistinctIds(imgOut.images)
        /\ \A i \in 1..Len(imgOut.images) :
              \E k \in 1..Len(CandidateList) : CandidateList[k].cid = imgOut.images[i].cid
        /\ \A i, j \in 1..Len(imgOut.images) :
              i < j => FirstSeen(imgOut.images[i].cid) < FirstSeen(imgOut.images[j].cid)

\* C9 amended: the output holds each content identifier at most once; each of
\* its URLs is the cleaned form of the first candidate with that identifier
\* among the candidates that pass the identity filter, and the URLs stand in
\* the order of those first passing occurrences.
C9_FirstSeenAmongFiltered ==
    (imgDone /\ ~imgOut.raised) =>
        /\ DistinctIds(imgOut.images)
        /\ \A i \in 1..Len(imgOut.images) :
              /\ imgOut.images[i].cid # NoId
              /\ \E k \in Passing : CandidateList[k].cid = imgOut.images[i].cid
              /\ imgOut.images[i] = Clean(CandidateList[FirstPassing(imgOut.images[i].cid)])
        /\ \A i, j \in 1..Len(imgOut.images) :
              i < j => FirstPassing(imgOut.images[i].cid) < FirstPassing(imgOut.images[j].cid)

\* Three candidates that pass the filter, two of them with the same content
\* identifier, and two URLs in the output.
C9_Witness ==
    /\ imgDone
    /\ ~imgOut.raised
    /\ Len(imgOut.images) = 2
    /\ Len(CandidateList) = 3
    /\ Passing = {1, 2, 3}
    /\ \E i, j \in 1..3 :
          i < j /\ CandidateList[i].cid = CandidateList[j].cid /\ CandidateList[i].cid # NoId

\* ----------------------------------------------------------- SpecRewrite
\* C11: the high-resolution rewrite is idempotent: the rules applied to the
\* already rewritten URL give the same URL again, whatever suffixes the URL
\* carried.
C11_RewriteIdempotent ==
    Len(rwOut) = 2 => rwOut[2] = rwOut[1]

\* ------------------------------------------------------------- SpecLists
\* The stripped texts of every element of the page, selector by selector.
RECURSIVE AllTexts(_)
AllTexts(selectors) ==
    IF selectors = <<>> THEN <<>>
    ELSE [j \in 1..Len(Head(selectors).els) |->
             [core |-> Head(selectors).els[j].core, len |-> Head(selectors).els[j].len]]
         \o AllTexts(Tail(selectors))
PageTexts == AllTexts(listPage.selectors)
FirstText(t) ==
    CHOOSE k \in 1..Len(PageTexts) :
        PageTexts[k] = t /\ \A m \in 1..(k - 1) : PageTexts[m] # t
Limit ==
    CASE listPage.kind = "highlights" -> 8
      [] listPage.kind = "services" -> 6
      [] listPage.kind = "promotions" -> 5

\* C12: the highlight, service and promotion lists hold no text twice, hold
\* texts of the page in the order in which they first occur on it (selector
\* by selector, element by element), and have at most 8, 6 and 5 entries.
C12_ListsDedupedOrderedCapped ==
    listDone =>
        /\ \A i, j \in 1..Len(listOut) : i # j => listOut[i] # listOut[j]
        /\ \A i \in 1..Len(listOut) : \E k \in 1..Len(PageTexts) : PageTexts[k] = listOut[i]
        /\ \A i, j \in 1..Len(listOut) :
              i < j => FirstText(listOut[i]) < FirstText(listOut[j])
        /\ Len(listOut) <= Limit

\* Fifteen distinct valid highlight candidates, padded with whitespace, ten
\* under the first selector and five under the second: the first eight are
\* returned.
C12_Witness ==
    /\ listDone
    /\ listPage.kind = "highlights"
    /\ Len(listPage.selectors[1].els) = 10
    /\ Len(listPage.selectors[2].els) = 5
    /\ Cardinality({PageTexts[k] : k \in 1..Len(PageTexts)}) = 15
    /\ \A k \in 1..Len(PageTexts) : PageTexts[k].len = 4
    /\ listPage.selectors[1].els[1].pad
    /\ listOut = [i \in 1..8 |-> PageTexts[i]]

\* ---------------------------------------------------------------- Spec
\* The positions of the URLs that were answered 200 and written, in order.
RECURSIVE SavedOf(_, _)
SavedOf(resp, i) ==
    IF i > Len(resp) THEN <<>>
    ELSE (IF resp[i] = "200" THEN <<i>> ELSE <<>>) \o SavedOf(resp, i + 1)

\* C13: whatever each URL's download meets, the downloader attempts every URL
\* of main_images, and local_images is exactly the paths of the URLs answered
\* 200 (and written), in the order of main_images: never more paths than
\* attempts, and a failed download ends neither the batch nor the call.
C13_DownloadPartialFailure ==
    \A c \in Calls :
        /\ pc[c] = "download" =>
              /\ dl[c].i = Len(dl[c].resp) + 1
              /\ dl[c].local_images = SavedOf(dl[c].resp, 1)
              /\ pending[c] = None
        /\ (pc[c] \in {"page_close", "done"} /\ dl[c].i > 0) =>
              /\ Len(dl[c].resp) = Len(product[c][1].main_images)
              /\ product[c][1].local_images = SavedOf(dl[c].resp, 1)
              /\ Len(product[c][1].local_images) <= Len(dl[c].resp)
              /\ "images_dir" \notin raised[c]

\* The first URL's download fails, the second is saved: scrape returns the
\* product with the second path alone.
C13_Witness ==
    \E c \in Calls :
        /\ pc[c] = "done"
        /\ dl[c].resp \in {<<"not200", "200">>, <<"error", "200">>}
        /\ result[c] # None
        /\ result[c][1].success
        /\ result[c][1].product[1].local_images = <<2>>

\* ------------------------------------------------------------ SpecFields
\* C14: on a usable page, whatever selector chains find nothing, extraction
\* does not raise and the fields that nothing was found for are absent: a call
\* in which no other step raised returns success with them absent; a visible
\* title surrounded by whitespace and no price element give the trimmed
\* title, price None and success.
C14_FieldAbsenceIsNoError ==
    \A c \in Calls :
        (page[c].content # None /\ page[c].usable) =>
            LET pg == page[c].content[1] IN
            /\ "extract" \notin raised[c]
            /\ product[c] # None
            /\ (pg.price_els = <<<<>>, <<>>>> /\ pg.orange = None) =>
                  product[c][1].price = None
            /\ pg.shop_els = <<None, None, None, None>> => product[c][1].shop_name = None
            /\ pg.desc = None => product[c][1].description = None
            /\ (pg.title_els = <<None, None, None, None, None>> /\ pg.page_title = <<>>) =>
                  product[c][1].title = [core |-> "", len |-> 0]
            /\ pg.title_els[1] = Some(MouseTitle) =>
                  product[c][1].title = [core |-> "Premium Wireless Mouse", len |-> 22]
            /\ (pc[c] = "done" /\ raised[c] = {}) =>
                  /\ result[c] # None
                  /\ result[c][1].success
                  /\ result[c][1].product[1].title = product[c][1].title
                  /\ result[c][1].product[1].price = product[c][1].price

\* The page shows "  Premium Wireless Mouse  " and no price, shop or
\* description: scrape has returned success with the trimmed title.
C14_Witness ==
    \E c \in Calls :
        /\ pc[c] = "done"
        /\ page[c].usable
        /\ page[c].content = Some(FieldPage(Some(MouseTitle), <<>>, <<>>, None, None, None))
        /\ MouseTitle.pad
        /\ result[c] # None
        /\ result[c][1].success
        /\ result[c][1].product[1].title = [core |-> "Premium Wireless Mouse", len |-> 22]
        /\ result[c][1].product[1].price = None

\* ---------------------------------------------------------------- Spec
\* C15: in every scrape call the response listener is on the page before the
\* page's navigation begins: no navigation of the call runs, or has run, with
\* no listener attached.
C15_ListenerBeforeNavigation ==
    \A c \in Calls :
        /\ pc[c] = "goto" => (page[c].st = "open" /\ page[c].listening)
        /\ page[c].nav # "missed"

\* A call whose navigation ran with the listener attached has returned.
C15_Witness ==
    \E c \in Calls :
        /\ pc[c] = "done"
        /\ page[c].nav = "heard"
        /\ "goto" \notin raised[c]

\* ------------------------------------------------------------- SpecLogin
\* C16: whatever the instance did before, the browser session that the login
\* page of login_interactive is opened in is non-headless.
C16_LoginSessionNotHeadless ==
    loginPage.st # "none" => loginPage.ctx \notin headlessCtxs

\* C17: a scrape call whose navigation exceeded its timeout returns
\* success=false; a call whose gallery wait timed out goes on to extraction,
\* and when no step raises it returns success=true with the product.
C17_NavigationTimeoutFatalGalleryNot ==
    \A c \in Calls :
        /\ (pc[c] = "done" /\ "goto" \in raised[c]) =>
              /\ outcome[c] = "returned"
              /\ result[c] # None
              /\ ~result[c][1].success
        /\ page[c].gallery = "timeout" =>
              /\ pc[c] = "extract" \/ page[c].content # None
              /\ (pc[c] = "done" /\ raised[c] = {}) =>
                    /\ outcome[c] = "returned"
                    /\ result[c][1].success
                    /\ result[c][1].product = product[c]

\* Both cases: one call returned success=false after its navigation timed out,
\* and one call whose gallery wait timed out returned success=true.
C17_Witness ==
    \E c \in Calls :
        /\ pc[c] = "done"
        /\ page[c].gallery = "timeout"
        /\ result[c] # None
        /\ result[c][1].success

C17_WitnessNavigation ==
    \E c \in Calls :
        /\ pc[c] = "done"
        /\ raised[c] = {"goto"}
        /\ result[c] # None
        /\ ~result[c][1].success

\* ---------------------------------------------------------- SpecPipeline
\* C18: the scrape_product step calls create, scrape, close in this order;
\* once a scraper was created, close() is called exactly once, after scrape()
\* has come back, when the result has success=true and when it has
\* success=false (which is then raised); close() is never called before
\* scrape().
C18_CreateScrapeCloseOnce ==
    /\ \E k \in 0..3 : pipeLog = SubSeq(<<"create", "scrape", "close">>, 1, k)
    /\ (pipePc = "done" /\ pipeLog # <<>>) =>
          /\ pipeLog = <<"create", "scrape", "close">>
          /\ pipeResult = "failure" => pipeOutcome = "raised"

\* A step whose scrape returned success=false: the scraper was closed once,
\* after the scrape, and the step raised.
C18_Witness ==
    /\ pipePc = "done"
    /\ pipeResult = "failure"
    /\ pipeLog = <<"create", "scrape", "close">>
    /\ pipeOutcome = "raised"

\* ------------------------------------------------------------------ Spec
\* C19 (as claimed): the product_info.json a scrape call wrote equals the
\* ProductInfo the call returns, field by field, local_images and
\* raw_json_path included.
C19_JsonFileEqualsReturnedProduct ==
    \A c \in Calls :
        (outcome[c] = "returned" /\ result[c][1].success /\ jsonFile[c] # None)
            => jsonFile[c] = result[c][1].product

\* ------------------------------------------------------------ SpecImages
\* A candidate repeats the content identifier of an earlier candidate.
IsDuplicate(k) ==
    /\ CandidateList[k].cid # NoId
    /\ \E m \in 1..(k - 1) : CandidateList[m].cid = CandidateList[k].cid
InOutput(url) == \E i \in 1..Len(imgOut.images) : imgOut.images[i] = Clean(url)

\* C20 as stated: every URL of the output comes from a candidate that passes
\* the identity filter (one with the seller token when a seller identity was
\* found, any candidate when none was found); and when none was found, every
\* candidate reaches the output unless it repeats the content identifier of an
\* earlier one.
C20_EveryCandidateReachesOutput ==
    (imgDone /\ ~imgOut.raised) =>
        /\ \A i \in 1..Len(imgOut.images) :
              \E k \in Passing : imgOut.images[i] = Clean(CandidateList[k])
        /\ imgOut.seller_id = None =>
              \A k \in 1..Len(CandidateList) : InOutput(CandidateList[k]) \/ IsDuplicate(k)

\* C20 amended: every URL of the output is the cleaned form of a candidate
\* that passes the identity filter, so it carries the seller token when a
\* seller identity was found; every passing candidate that has a content
\* identifier is represented in the output by its identifier; and when no
\* seller identity was found, every candidate reaches the output (cleaned)
\* unless it repeats an earlier identifier or has no content identifier at all.
C20_FilterThenIdentifiedReachOutput ==
    (imgDone /\ ~imgOut.raised) =>
        /\ \A i \in 1..Len(imgOut.images) :
              /\ \E k \in Passing : imgOut.images[i] = Clean(CandidateList[k])
              /\ imgOut.seller_id # None =>
                    imgOut.images[i].tag = imgOut.seller_id
        /\ \A k \in Passing :
              CandidateList[k].cid # NoId =>
                  \E i \in 1..Len(imgOut.images) :
                      imgOut.images[i].cid = CandidateList[k].cid
        /\ imgOut.seller_id = None =>
              \A k \in 1..Len(CandidateList) :
                  \/ InOutput(CandidateList[k])
                  \/ IsDuplicate(k)
                  \/ CandidateList[k].cid = NoId

\* No seller identity was found; of three candidates, one without the seller
\* token reached the output and one without a content identifier did not.
C20_Witness ==
    /\ imgDone
    /\ ~imgOut.raised
    /\ imgOut.seller_id = None
    /\ Len(CandidateList) = 3
    /\ \E k \in 1..3 : CandidateList[k].cid = NoId
    /\ \E k \in 1..3 : CandidateList[k].tag = None /\ InOutput(CandidateList[k])
    /\ Len(imgOut.images) = 2

\* The srcs the gallery yields, and whether a URL passes the identity filter.
GallerySrcs == IF imgPage.gallery THEN Srcs(imgPage.thumbs) ELSE <<>>
PassesFilter(url) ==
    imgOut.seller_id = None \/ url.tag = imgOut.seller_id
FromList(list) ==
    /\ \A i \in 1..Len(imgOut.images) :
          \E k \in 1..Len(list) :
              PassesFilter(list[k]) /\ imgOut.images[i] = Clean(list[k])
    /\ \A k \in 1..Len(list) :
          (PassesFilter(list[k]) /\ list[k].cid # NoId) =>
              \E i \in 1..Len(imgOut.images) : imgOut.images[i].cid = list[k].cid

\* C21: the resolver's output is drawn from the intercepted list when the
\* gallery yields no thumbnail with a src, and from the thumbnails alone when
\* it yields one; when thumbnails exist and none survives the filter the
\* output is the empty list, without an error, whatever was intercepted.
C21_OneSourceChosenBeforeFiltering ==
    (imgDone /\ imgPage.usable) =>
        /\ ~imgOut.raised
        /\ GallerySrcs = <<>> => FromList(imgApi)
        /\ GallerySrcs # <<>> => FromList(GallerySrcs)
        /\ (GallerySrcs # <<>>
              /\ \A k \in 1..Len(GallerySrcs) : ~PassesFilter(GallerySrcs[k]))
           => imgOut.images = <<>>

\* The gallery's thumbnails all lack the seller token, an intercepted URL
\* carries it, and the output is empty.
C21_Witness ==
    /\ imgDone
    /\ ~imgOut.raised
    /\ GallerySrcs # <<>>
    /\ \A k \in 1..Len(GallerySrcs) : ~PassesFilter(GallerySrcs[k])
    /\ \E k \in 1..Len(imgApi) : PassesFilter(imgApi[k]) /\ imgApi[k].cid # NoId
    /\ imgOut.images = <<>>

\* ----------------------------------------------------------- SpecRewrite
\* The renditions the CDN serves of one asset: a quality suffix or a
\* dimension suffix before the format extension, with and without _.webp.
RenditionForms ==
    {<<".jpg", "_q50", ".jpg">>, <<".jpg", "_q50", ".jpg", "_.webp">>,
     <<".jpg", "_400x400", ".jpg">>, <<".jpg", "_400x400", ".jpg", "_.webp">>}
KeepsRendition(sfx) ==
    \E i \in 1..Len(sfx) : sfx[i] \in {"_q50", "_400x400"}

\* C22 (as claimed): the rewritten form of a URL that carries a quality
\* suffix or a dimension suffix, with or without a trailing _.webp, carries
\* neither.
C22_RenditionSuffixStripped ==
    (rwUrl.sfx \in RenditionForms /\ Len(rwOut) >= 1) => ~KeepsRendition(rwOut[1].sfx)

\* ------------------------------------------------------------ SpecFields
\* The segments of a document title that stand before its last separator
\* (the whole title when it has no separator), by what they say.
BeforeLastSeparator(pt) ==
    [i \in 1..(IF Len(pt) >= 2 THEN Len(pt) - 1 ELSE Len(pt)) |-> pt[i].core]

\* C23 (as claimed): when no title selector yields a text longer than 5, the
\* title is the document title up to its last separator, separators inside
\* the product name included; with an empty document title it is "".
C23_TitleFallbackKeepsInnerSeparators ==
    \A c \in Calls :
        (product[c] # None /\ page[c].content # None
            /\ FirstTitle(page[c].content[1].title_els) = None)
        => LET pt == page[c].content[1].page_title IN
           IF pt = <<>> THEN product[c][1].title = EmptyText
           ELSE <<product[c][1].title.core>> = BeforeLastSeparator(pt)

\* --------------------------------------------------------- SpecIntercept
\* The URLs of the responses that were read and held some, in order.
RECURSIVE FoundIn(_)
FoundIn(heard) ==
    IF heard = <<>> THEN <<>>
    ELSE (IF Head(heard).kind = "found" THEN Head(heard).urls ELSE <<>>)
             \o FoundIn(Tail(heard))
Handled(c) == page'[c].heard # page[c].heard /\ page'[c].heard # <<>>

\* C24: the interceptor only appends.  The candidate list is at every moment
\* the URLs of the responses that were read, in the order they were handled,
\* whatever responses failed in between; and handling a response, failed or
\* not, leaves the call where it is, raises nothing into it and changes
\* neither its product nor its result.
C24_InterceptorOnlyAppends ==
    /\ [](\A c \in Calls : page[c].api = FoundIn(page[c].heard))
    /\ [][\A c \in Calls :
            Handled(c) =>
                /\ UNCHANGED <<pc, pending, raised, result, outcome, product>>
                /\ Len(page'[c].api) >= Len(page[c].api)
                /\ SubSeq(page'[c].api, 1, Len(page[c].api)) = page[c].api]_vars

\* A response that held URLs, then one that failed, and the call returned
\* success with the first one's URLs still in the list.
C24_Witness ==
    \E c \in Calls :
        /\ pc[c] = "done"
        /\ result[c] # None
        /\ result[c][1].success
        /\ Len(page[c].heard) = 2
        /\ page[c].heard[1] = ApiResponse("found", <<2, 1>>)
        /\ page[c].heard[2].kind = "raises"
        /\ page[c].api = <<2, 1>>

\* ------------------------------------------------------------ SpecImages
\* The orderings of the candidate list, and what the resolver's loop gives
\* for each of them under the seller identity of the page.
Orderings ==
    LET n == Len(CandidateList) IN
    {[i \in 1..n |-> CandidateList[f[i]]] :
        f \in {g \in [1..n -> 1..n] : \A i, j \in 1..n : g[i] = g[j] => i = j}}
OutputFor(list) == Cleaned(list, imgOut.seller_id, {})
IdsIn(out) == {out[i].cid : i \in 1..Len(out)}

\* C25: for every ordering of the candidate list, under the same seller
\* identity, the resolver's output holds the same set of content identifiers
\* as the output of the call.
C25_IdentifiersIndependentOfOrder ==
    (imgDone /\ ~imgOut.raised) =>
        \A list \in Orderings : IdsIn(OutputFor(list)) = IdsIn(imgOut.images)

\* Three candidates, two of them renditions of one asset: another ordering
\* gives another output list, with the same two identifiers.
C25_Witness ==
    /\ imgDone
    /\ ~imgOut.raised
    /\ Len(CandidateList) = 3
    /\ Len(imgOut.images) = 2
    /\ \E list \in Orderings :
          /\ OutputFor(list) # imgOut.images
          /\ {OutputFor(list)[i] : i \in 1..2} # {imgOut.images[i] : i \in 1..2}
          /\ IdsIn(OutputFor(list)) = IdsIn(imgOut.images)

\* ------------------------------------------------------------- SpecLogin
\* C26 (as claimed): when login_interactive is over, however it ended, the
\* page it opened is closed.
C26_LoginPageClosedOnEveryExit ==
    (loginPc = "done" /\ loginPage.st # "none") => loginPage.st = "closed"

\* -------------------------------------------------------- SpecConcurrent
\* C27 (as claimed): with two scrape calls in flight on an instance that was
\* not launched, the persistent context is launched at most once and the
\* pages of both calls are opened on that one context.
C27_ConcurrentCallsShareOneLaunch ==
    /\ launches <= 1
    /\ \A c, d \in Calls :
          (page[c].st # "none" /\ page[d].st # "none") => page[c].ctx = page[d].ctx

\* C28: a candidate the identity filter rejects does not mark its content
\* identifier as seen: when an occurrence of an identifier lacks the seller
\* token and a later occurrence carries it, the later occurrence is in the
\* output (in its rewritten form, unless an earlier occurrence with the token
\* stands for the identifier).
C28_FilterBeforeDeduplication ==
    (imgDone /\ ~imgOut.raised /\ imgOut.seller_id # None) =>
        \A k \in 1..Len(CandidateList) :
            (/\ CandidateList[k].cid # NoId
             /\ PassesFilter(CandidateList[k])
             /\ \A m \in 1..(k - 1) :
                   CandidateList[m].cid = CandidateList[k].cid
                       => ~PassesFilter(CandidateList[m]))
            => InOutput(CandidateList[k])

\* The first occurrence of an identifier lacks the seller token, the second
\* carries it and is in the output.
C28_Witness ==
    /\ imgDone
    /\ ~imgOut.raised
    /\ imgOut.seller_id # None
    /\ Len(CandidateList) >= 2
    /\ CandidateList[1].cid = CandidateList[2].cid
    /\ CandidateList[1].cid # NoId
    /\ ~PassesFilter(CandidateList[1])
    /\ PassesFilter(CandidateList[2])
    /\ InOutput(CandidateList[2])

\* ------------------------------------------------------------------ Spec
\* C29: when page.close() raises in the cleanup of a call in which every
\* earlier step succeeded, the call returns success=false with the error
\* message and without the ProductInfo it had built.
C29_CleanupFailureReplacesSuccess ==
    \A c \in Calls :
        (pc[c] = "done" /\ raised[c] = {"page_close"}) =>
            /\ outcome[c] = "returned"
            /\ result[c] # None
            /\ ~result[c][1].success
            /\ result[c][1].error = Some("page_close")
            /\ result[c][1].product = None

\* A call that had built its product and saved it, and whose page.close()
\* raised, has returned.
C29_Witness ==
    \E c \in Calls :
        /\ pc[c] = "done"
        /\ raised[c] = {"page_close"}
        /\ product[c] # None
        /\ jsonFile[c] # None
        /\ outcome[c] = "returned"

\* C30 (as claimed): at every moment at most one engine has been started and
\* not stopped, and when close() has returned none is left running.
C30_AtMostOneEngineRunning ==
    /\ Cardinality(engines) <= 1
    /\ closeResult = "returned" => engines = {}

====
